---- MODULE Spec2Model ----
(***************************************************************************)
(* Clinic appointment service (server: src/unnamed/part_003).              *)
(*                                                                         *)
(* The store holds users, appointments, demand cells and the message pool. *)
(* Every handler is an async function: each awaited store call is one      *)
(* atomic step, and other handlers may run between two awaits.  Time is    *)
(* counted in minutes from 2025-10-01 00:00 (a Wednesday), Asia/Riyadh.    *)
(*                                                                         *)
(* attendanceRate is a double in the code, (attended / total) * 100.  The  *)
(* model keeps it as the exact fraction <<num, den>> in lowest terms.      *)
(***************************************************************************)
EXTENDS Integers, Sequences, FiniteSets, TLC

VARIABLES
    users,     \* User collection: userName -> document
    appts,     \* Appointment collection: id -> document
    cells,     \* HighDemand collection: a set of documents
    messages,  \* Message collection: category -> set of texts
    jobs,      \* cron jobs armed by book (node-cron, in memory)
    procs,     \* running handlers: HTTP requests and cron callbacks
    outbox,    \* calls of sendTelegramReminder, in order
    now,       \* wall clock, minutes
    overridden \* history: users whose category an admin set since their
               \* last attendance update (an update that loaded the user
               \* before the admin's write does not count as later)

vars == <<users, appts, cells, messages, jobs, procs, outbox, now, overridden>>

----------------------------------------------------------------------------
(* Bounds of the model *)

\* largest attended+missed a user starts with
MaxHist == 2
\* largest number of texts per message category
MaxPool == 1
\* users whose category stands overridden at one time
MaxOverrides == 1
\* largest totalAppointments a demand cell starts with
MaxTotal == 2
\* slots one request may generate before the model stops following it
MaxSlots == 6

(* Program constants *)

MinHistory == 3
VeryGoodRate == 80
GoodRate == 60
AttendPoints == 10
MissPenalty == 5
AutoMissDelay == 10
DefaultThreshold == 3
HourMin == 60
\* dayOfWeek: null of an admin baseline row
NullDow == -1

DayMin == 24 * HourMin
YearMin == 365 * DayMin
\* Number.MAX_SAFE_INTEGER, a threshold no total reaches; 2^53 - 1 in the
\* program, here the largest integer TLC represents
MaxSafe == 2147483647

----------------------------------------------------------------------------
(* Names *)

UserNames == {"ali", "sara"}
ApptIds == {"a1", "a2"}
Doctor == "DrSara"
Reqs == {"r1", "r2"}
AmProcs == {"m1", "m2"}
\* the callback of a periodic task of the demand engine
CronProcs == {"k1"}
ProcIds == Reqs \cup AmProcs \cup CronProcs
AmOf(a) == IF a = "a1" THEN "m1" ELSE "m2"

Categories == {"Good", "Very Good", "At-Risk"}
Terminal == {"attended", "missed"}
Statuses == {"available", "booked"} \cup Terminal
\* req.body.status is not validated: any string reaches the update; "booked"
\* stands for the values other than attended and missed
StatusInputs == {"attended", "missed", "booked"}

\* appointment instants: Tue 2025-10-07 09:00 and Wed 2025-10-08 10:00
SlotTime(a) == IF a = "a1" THEN 6 * DayMin + 9 * HourMin
                           ELSE 7 * DayMin + 10 * HourMin

----------------------------------------------------------------------------
(* Date accessors.  The calendar has 365-day years (no 29 February falls  *)
(* in the period the model covers); a cron pattern "m h D M *" matches     *)
(* once a year.                                                            *)

\* day of the 365-day cycle that starts on 1 October
DayOfCycle(t) == (t % YearMin) \div DayMin
\* first days of November, December, January, ... , September in the cycle
MonthStarts == <<31, 61, 92, 123, 151, 182, 212, 243, 273, 304, 335>>
\* months passed since October
MonthsPassed(t) == Cardinality({i \in DOMAIN MonthStarts :
                                   MonthStarts[i] <= DayOfCycle(t)})

getFullYear(t) ==
    2025 + (t \div YearMin) + (IF MonthsPassed(t) >= 3 THEN 1 ELSE 0)
\* getMonth() + 1
getMonth1(t) == ((9 + MonthsPassed(t)) % 12) + 1
\* getDate(): the day of the month
getDate(t) ==
    IF MonthsPassed(t) = 0 THEN DayOfCycle(t) + 1
    ELSE DayOfCycle(t) - MonthStarts[MonthsPassed(t)] + 1
getDay(t) == (3 + ((t % YearMin) \div DayMin)) % 7
getHours(t) == (t \div HourMin) % 24

RECURSIVE GCD(_, _)
GCD(a, b) == IF b = 0 THEN a ELSE GCD(b, a % b)

\* (attendedCount / total) * 100, or 0 when total = 0
AttendanceRate(attended, total) ==
    IF total > 0
    THEN LET g == GCD(100 * attended, total)
         IN  IF g = 0 THEN <<0, 1>>
             ELSE <<(100 * attended) \div g, total \div g>>
    ELSE <<0, 1>>

RateGE(r, k) == r[1] >= k * r[2]

\* the reclassification of updateAppointmentStatus
Reclassify(cat, rate, total) ==
    IF total >= MinHistory
    THEN IF RateGE(rate, VeryGoodRate) THEN "Very Good"
         ELSE IF RateGE(rate, GoodRate) THEN "Good"
         ELSE "At-Risk"
    ELSE cat

\* the score without the clamp of Math.max
ScoreAfterUnclamped(score, st) ==
    IF st = "attended" THEN score + AttendPoints
    ELSE IF st = "missed" THEN score - MissPenalty
    ELSE score

ScoreAfter(score, st) ==
    IF st = "attended" THEN score + AttendPoints
    ELSE IF st = "missed"
         THEN (IF score - MissPenalty > 0 THEN score - MissPenalty ELSE 0)
         ELSE score

\* messageType and reminderHours of book, by category
MessageType(cat) ==
    IF cat = "Very Good" THEN "positive nudge"
    ELSE IF cat = "Good" THEN "default nudge"
    ELSE "re-engagement"

ReminderHours(cat) ==
    IF cat = "Very Good" THEN <<24>>
    ELSE IF cat = "At-Risk" THEN <<48, 6, 1>>
    ELSE <<24, 2>>

MessageTypes == {"positive nudge", "default nudge", "re-engagement"}

----------------------------------------------------------------------------
(* Documents *)

NewUser == [score |-> 0, attendedCount |-> 0, missedCount |-> 0,
            attendanceRate |-> <<0, 1>>, category |-> "Good",
            linked |-> FALSE]

\* a user as it stands after `a` attended and then `m` missed appointments
UserWith(a, m, linked) ==
    [score |-> IF AttendPoints * a - MissPenalty * m > 0
               THEN AttendPoints * a - MissPenalty * m ELSE 0,
     attendedCount |-> a, missedCount |-> m,
     attendanceRate |-> AttendanceRate(a, a + m),
     category |-> Reclassify("Good", AttendanceRate(a, a + m), a + m),
     linked |-> linked]

NoUser == [score |-> 0, attendedCount |-> 0, missedCount |-> 0,
           attendanceRate |-> <<0, 1>>, category |-> "none",
           linked |-> FALSE]

IdleProc == [kind |-> "none", pc |-> "idle", appt |-> "none",
             name |-> "none", st |-> "none", prev |-> "none",
             uname |-> "none", u |-> NoUser, high |-> FALSE, at |-> 0,
             rows |-> <<>>, result |-> "none", applied |-> FALSE,
             snap |-> {}, left |-> {}, top |-> {}, targets |-> {},
             req |-> <<>>]

----------------------------------------------------------------------------
(* Demand cells (HighDemand).  lastUpdated is not modelled: nothing reads  *)
(* it.                                                                     *)

\* highDemandThreshold is a double (avg * 1.2 need not be whole): the model
\* keeps it as the exact fraction <<num, den>> in lowest terms, den > 0
Frac(n, d) ==
    LET g == GCD(n, d)
    IN  IF g = 0 THEN <<0, 1>> ELSE <<n \div g, d \div g>>
Whole(n) == <<n, 1>>
\* total >= threshold
AtLeast(total, threshold) == total * threshold[2] >= threshold[1]

Cell(doctor, year, month, dow, hour, total, threshold, source) ==
    [doctorName |-> doctor, year |-> year, month |-> month,
     dayOfWeek |-> dow, hour |-> hour, totalAppointments |-> total,
     highDemandThreshold |-> threshold, source |-> source]

NoCell == Cell("none", 0, 0, NullDow, 0, 0, Whole(0), "none")

\* Model.findOne over a filtered set: a document, or null
FindOne(S) == IF S = {} THEN NoCell ELSE CHOOSE c \in S : TRUE

\* the copy with last year's totals kept
initializeMonthKeepingTotals(cs, doctor, date) ==
    LET year == getFullYear(date)
        month == getMonth1(date)
        exists == {c \in cs : c.doctorName = doctor /\ c.year = year
                                /\ c.month = month}
        lastYear == {c \in cs : c.doctorName = doctor /\ c.year = year - 1
                                  /\ c.month = month}
    IN  IF exists # {} THEN cs
        ELSE cs \cup {Cell(doctor, year, month, r.dayOfWeek, r.hour,
                           r.totalAppointments, r.highDemandThreshold,
                           "auto") : r \in lastYear}

initializeMonthIfNeeded(cs, doctor, date) ==
    LET year == getFullYear(date)
        month == getMonth1(date)
        exists == {c \in cs : c.doctorName = doctor /\ c.year = year
                                /\ c.month = month}
        lastYear == {c \in cs : c.doctorName = doctor /\ c.year = year - 1
                                  /\ c.month = month}
    IN  IF exists # {} THEN cs
        ELSE cs \cup {Cell(doctor, year, month, r.dayOfWeek, r.hour, 0,
                           r.highDemandThreshold, "auto") : r \in lastYear}

\* HighDemand.findOneAndUpdate({doctorName, year, month, dayOfWeek, hour},
\* {$inc: {totalAppointments: 1}}, {upsert: true})
IncAttended(cs, doctor, date) ==
    LET year == getFullYear(date)
        month == getMonth1(date)
        dow == getDay(date)
        hour == getHours(date)
        hit == {c \in cs : c.doctorName = doctor /\ c.year = year
                             /\ c.month = month /\ c.dayOfWeek = dow
                             /\ c.hour = hour}
    IN  IF hit = {}
        THEN cs \cup {Cell(doctor, year, month, dow, hour, 1,
                           Whole(DefaultThreshold), "auto")}
        ELSE LET c == FindOne(hit)
             IN  (cs \ {c}) \cup
                 {[c EXCEPT !.totalAppointments = @ + 1]}

updateHighDemandStats(cs, doctor, date) ==
    IncAttended(initializeMonthIfNeeded(cs, doctor, date), doctor, date)

\* the lookup with the admin baseline of the year taken before last year's
\* learned cell
getEffectiveBaselineFirst(cs, doctor, date) ==
    LET year == getFullYear(date)
        month == getMonth1(date)
        dow == getDay(date)
        hour == getHours(date)
        q(y, d, adminOnly) ==
            {c \in cs : c.doctorName = doctor /\ c.year = y /\ c.month = month
                          /\ c.dayOfWeek = d /\ c.hour = hour
                          /\ (adminOnly => c.source = "admin")}
    IN  IF q(year, dow, FALSE) # {} THEN FindOne(q(year, dow, FALSE))
        ELSE IF q(year, NullDow, TRUE) # {}
             THEN FindOne(q(year, NullDow, TRUE))
        ELSE IF q(year - 1, dow, FALSE) # {}
             THEN FindOne(q(year - 1, dow, FALSE))
        ELSE FindOne(q(year - 1, NullDow, TRUE))

getEffectiveHighDemand(cs, doctor, date) ==
    LET year == getFullYear(date)
        month == getMonth1(date)
        dow == getDay(date)
        hour == getHours(date)
        q(y, d, adminOnly) ==
            {c \in cs : c.doctorName = doctor /\ c.year = y /\ c.month = month
                          /\ c.dayOfWeek = d /\ c.hour = hour
                          /\ (adminOnly => c.source = "admin")}
    IN  IF q(year, dow, FALSE) # {} THEN FindOne(q(year, dow, FALSE))
        ELSE IF q(year - 1, dow, FALSE) # {}
             THEN FindOne(q(year - 1, dow, FALSE))
        ELSE IF q(year, NullDow, TRUE) # {}
             THEN FindOne(q(year, NullDow, TRUE))
        ELSE FindOne(q(year - 1, NullDow, TRUE))

\* the gate with the admin baseline forgotten
isHighDemandByTotalOnly(slot) ==
    slot # NoCell /\ AtLeast(slot.totalAppointments, slot.highDemandThreshold)

isHighDemand(slot) ==
    slot # NoCell /\ (slot.source = "admin"
                      \/ AtLeast(slot.totalAppointments,
                                 slot.highDemandThreshold))

----------------------------------------------------------------------------
(* updateAppointmentStatus(appointmentId, status), step by step.  It runs  *)
(* inside POST /appointments/status/:id and inside the auto-miss callback. *)

Finish(p, res) ==
    [procs[p] EXCEPT !.pc = "done", !.result = res, !.u = NoUser,
                     !.uname = "none", !.rows = <<>>, !.at = 0,
                     !.high = FALSE, !.snap = {}]

\* a request slot is free; the slots are interchangeable, so r1 is used first
CanStart(p) ==
    /\ p \in Reqs
    /\ procs[p].pc = "idle"
    /\ p = "r2" => procs["r1"].pc # "idle"

\* Appointment.findByIdAndUpdate(id, {status}, {new: true})
\* with no such appointment nothing is written and the call returns null
UpdSet(p, kind, a, st) ==
    IF a \notin DOMAIN appts
    THEN /\ appts' = appts
         /\ procs' = [procs EXCEPT ![p] =
                         [IdleProc EXCEPT !.kind = kind, !.pc = "done",
                                          !.appt = a, !.st = st,
                                          !.result = "NotFound"]]
    ELSE /\ appts' = [appts EXCEPT ![a].status = st]
         /\ procs' = [procs EXCEPT ![p] =
                         [IdleProc EXCEPT !.kind = kind, !.pc = "findUser",
                                          !.appt = a, !.st = st,
                                          !.prev = appts[a].status,
                                          !.uname = appts[a].userName]]

\* User.findOne({userName: appointment.userName}); null ends the call
UpdFindUser(p) ==
    /\ procs[p].pc = "findUser"
    /\ procs' = [procs EXCEPT ![p] =
                    IF procs[p].uname \in DOMAIN users
                    THEN [@ EXCEPT !.pc = "save", !.u = users[procs[p].uname]]
                    ELSE Finish(p, "NotFound")]
    /\ UNCHANGED <<users, appts, cells, messages, jobs, outbox, now,
                   overridden>>

\* the document held by the handler after the in-memory update
Updated(u, st) ==
    LET attended == u.attendedCount + (IF st = "attended" THEN 1 ELSE 0)
        missed == u.missedCount + (IF st = "missed" THEN 1 ELSE 0)
        total == attended + missed
        rate == AttendanceRate(attended, total)
    IN  [u EXCEPT !.score = ScoreAfter(u.score, st),
                  !.attendedCount = attended,
                  !.missedCount = missed,
                  !.attendanceRate = rate,
                  !.category = Reclassify(u.category, rate, total)]

\* user.save(): Mongoose writes the paths whose value changed since load
SaveDelta(stored, loaded, held) ==
    [stored EXCEPT
        !.score = IF held.score # loaded.score THEN held.score ELSE @,
        !.attendedCount = IF held.attendedCount # loaded.attendedCount
                          THEN held.attendedCount ELSE @,
        !.missedCount = IF held.missedCount # loaded.missedCount
                        THEN held.missedCount ELSE @,
        !.attendanceRate = IF held.attendanceRate # loaded.attendanceRate
                           THEN held.attendanceRate ELSE @,
        !.category = IF held.category # loaded.category
                     THEN held.category ELSE @]

\* where the caller of updateAppointmentStatus continues
AfterUpdate(p) ==
    IF procs[p].kind = "automiss"
    THEN [procs[p] EXCEPT !.pc = "survey", !.applied = TRUE]
    ELSE [Finish(p, "ok") EXCEPT !.applied = TRUE]

UpdSave(p) ==
    /\ procs[p].pc = "save"
    /\ LET n == procs[p].uname
           held == Updated(procs[p].u, procs[p].st)
       IN  /\ users' = [users EXCEPT ![n] = SaveDelta(@, procs[p].u, held)]
           /\ overridden' = IF users[n].category # procs[p].u.category
                            THEN overridden
                            ELSE overridden \ {n}
           /\ procs' = [procs EXCEPT ![p] =
                           IF procs[p].st = "attended"
                           THEN [@ EXCEPT !.pc = "learn", !.applied = TRUE]
                           ELSE AfterUpdate(p)]
    /\ UNCHANGED <<appts, cells, messages, jobs, outbox, now>>

\* initializeMonthIfNeeded, then updateHighDemandStats
UpdLearn(p) ==
    /\ procs[p].pc = "learn"
    /\ LET a == procs[p].appt
       IN  cells' = updateHighDemandStats(
                        initializeMonthIfNeeded(cells, appts[a].doctorName,
                                                appts[a].date),
                        appts[a].doctorName, appts[a].date)
    /\ procs' = [procs EXCEPT ![p] = AfterUpdate(p)]
    /\ UNCHANGED <<users, appts, messages, jobs, outbox, now, overridden>>

\* POST /appointments/status/:id
SetStatus(p, a, st) ==
    /\ CanStart(p)
    /\ UpdSet(p, "status", a, st)
    /\ UNCHANGED <<users, cells, messages, jobs, outbox, now, overridden>>

----------------------------------------------------------------------------
(* The auto-miss cron job of an appointment, armed by book with the        *)
(* pattern "minute hour day month *" of appointment time + 10 minutes.     *)

CronMatches(at, t) == t % YearMin = at % YearMin

\* a job and what its callback closes over.  fires counts its firings; used
\* is the usedMessages array, shared by the callbacks of one booking; threw
\* tells that a run of the callback ended on an exception
Job(kind, a, at, armed, owner, uname, mtype) ==
    [kind |-> kind, appt |-> a, at |-> at, lastFired |-> armed,
     owner |-> owner, uname |-> uname, mtype |-> mtype,
     fires |-> 0, used |-> {}, linked |-> FALSE, threw |-> FALSE]

\* sendTelegramReminder with the failure of bot.sendMessage passed on
sendTelegramReminderUnsafe(bot, linked, raises) ==
    IF ~bot \/ ~linked THEN "skipped"
    ELSE IF raises THEN "threw" ELSE "delivered"

\* sendTelegramReminder(user, text): returns at once without a bot or a
\* chat id, and catches what bot.sendMessage raises
sendTelegramReminder(bot, linked, raises) ==
    IF ~bot \/ ~linked THEN "skipped"
    ELSE IF raises THEN "failed" ELSE "delivered"

\* the test with the replay case forgotten
AutoMissActsUnlessAttended(status) == status # "attended"

\* the callback's test on the appointment it reloaded
AutoMissActs(status) == status = "booked"

\* the status of the document findById returns; "deleted" when it is null
StatusOf(a) == IF a \in DOMAIN appts THEN appts[a].status ELSE "deleted"

\* the job fires: Appointment.findById, then the test
AutoMissCheck(m, j) ==
    /\ m \in AmProcs
    /\ j \in jobs
    /\ j.kind = "automiss"
    /\ AmOf(j.appt) = m
    /\ CronMatches(j.at, now)
    /\ now > j.lastFired
    /\ procs[m].pc \in {"idle", "done"}
    /\ jobs' = (jobs \ {j}) \cup {[j EXCEPT !.lastFired = now,
                                              !.fires = @ + 1]}
    /\ procs' = [procs EXCEPT ![m] =
                    [IdleProc EXCEPT
                        !.kind = "automiss", !.appt = j.appt,
                        !.st = "missed", !.prev = StatusOf(j.appt),
                        !.pc = IF AutoMissActs(StatusOf(j.appt))
                               THEN "set" ELSE "done",
                        !.result = IF AutoMissActs(StatusOf(j.appt))
                                   THEN "none" ELSE "skipped"]]
    /\ UNCHANGED <<users, appts, cells, messages, outbox, now, overridden>>

\* updateAppointmentStatus(current._id, "missed")
AutoMissSet(m) ==
    /\ m \in AmProcs
    /\ procs[m].pc = "set"
    /\ UpdSet(m, "automiss", procs[m].appt, "missed")
    /\ UNCHANGED <<users, cells, messages, jobs, outbox, now, overridden>>

\* sendTelegramReminder(result.user, <survey link>)
AutoMissSurvey(m) ==
    /\ m \in AmProcs
    /\ procs[m].pc = "survey"
    /\ outbox' = Append(outbox, [kind |-> "survey", appt |-> procs[m].appt,
                                 user |-> procs[m].uname, text |-> 0,
                                 at |-> now,
                                 delivered |-> procs[m].u.linked,
                                 outcome |-> sendTelegramReminder(
                                     TRUE, procs[m].u.linked, FALSE)])
    /\ procs' = [procs EXCEPT ![m] = Finish(m, "ok")]
    /\ UNCHANGED <<users, appts, cells, messages, jobs, now, overridden>>

\* POST /admin/set-category
SetCategory(n, c) ==
    /\ n \in DOMAIN users
    /\ c \in Categories
    /\ n \in overridden \/ Cardinality(overridden) < MaxOverrides
    /\ users' = [users EXCEPT ![n].category = c]
    /\ overridden' = overridden \cup {n}
    /\ UNCHANGED <<appts, cells, messages, jobs, procs, outbox, now>>

----------------------------------------------------------------------------
(* POST /appointments/book/:id, step by step. *)

\* names a request may carry: registered ones, one in another letter case,
\* and one that is not registered
NameInputs == UserNames \cup {"ALI", "omar"}
Lower(n) == IF n = "ALI" THEN "ali" ELSE n

\* User.findOne({userName: new RegExp(`^${userName}$`, "i")})
FindUserIgnoreCase(name) ==
    {n \in DOMAIN users : Lower(n) = Lower(name)}

\* the iteration with a reminder due exactly now taken as a future one
PlanRowStrict(mtype, apptTime, h, at) ==
    IF apptTime - h * HourMin < at
    THEN [messageType |-> mtype, sendTime |-> at, status |-> "sent"]
    ELSE [messageType |-> mtype, sendTime |-> apptTime - h * HourMin,
          status |-> "scheduled"]

\* one iteration of the loop over reminderHours
PlanRow(mtype, apptTime, h, at) ==
    IF apptTime - h * HourMin <= at
    THEN [messageType |-> mtype, sendTime |-> at, status |-> "sent"]
    ELSE [messageType |-> mtype, sendTime |-> apptTime - h * HourMin,
          status |-> "scheduled"]

PlanRows(mtype, apptTime, hours, at) ==
    [i \in 1..Len(hours) |-> PlanRow(mtype, apptTime, hours[i], at)]

\* the cron jobs armed by one booking: one per future reminder, and auto-miss
PlanJobs(p, a, uname, mtype, apptTime, hours, at) ==
    {Job("reminder", a, apptTime - hours[i] * HourMin, at, p, uname, mtype) :
        i \in {k \in 1..Len(hours) : apptTime - hours[k] * HourMin > at}}
    \cup {Job("automiss", a, apptTime + AutoMissDelay, at, p, uname, mtype)}

\* step 1: Appointment.findById and the availability test
BookFind(p, a, name) ==
    /\ CanStart(p)
    /\ procs' = [procs EXCEPT ![p] =
                    IF a \notin DOMAIN appts
                    THEN [IdleProc EXCEPT !.kind = "book", !.pc = "done",
                                          !.appt = a, !.name = name,
                                          !.result = "NotFound"]
                    ELSE IF appts[a].status # "available"
                    THEN [IdleProc EXCEPT !.kind = "book", !.pc = "done",
                                          !.appt = a, !.name = name,
                                          !.result = "NotAvailable"]
                    ELSE [IdleProc EXCEPT !.kind = "book", !.pc = "loadUser",
                                          !.appt = a, !.name = name]]
    /\ UNCHANGED <<users, appts, cells, messages, jobs, outbox, now,
                   overridden>>

\* step 2 as the first server wrote it: an unknown user is created
BookLoadUserCreates(p) ==
    /\ procs[p].pc = "loadUser"
    /\ LET found == FindUserIgnoreCase(procs[p].name)
           n == procs[p].name
       IN  IF found = {}
           THEN /\ users' = [x \in DOMAIN users \cup {n} |->
                                IF x = n THEN NewUser ELSE users[x]]
                /\ procs' = [procs EXCEPT ![p].pc = "admit", ![p].uname = n,
                                          ![p].u = NewUser]
           ELSE /\ users' = users
                /\ \E x \in found :
                      procs' = [procs EXCEPT ![p].pc = "admit",
                                             ![p].uname = x,
                                             ![p].u = users[x]]
    /\ UNCHANGED <<appts, cells, messages, jobs, outbox, now, overridden>>

\* step 2: the user, ignoring letter case; findOne returns any one match
BookLoadUser(p) ==
    /\ procs[p].pc = "loadUser"
    /\ LET found == FindUserIgnoreCase(procs[p].name)
       IN  IF found = {}
           THEN procs' = [procs EXCEPT ![p] = Finish(p, "UserNotRegistered")]
           ELSE \E n \in found :
                   procs' = [procs EXCEPT ![p].pc = "admit", ![p].uname = n,
                                          ![p].u = users[n]]
    /\ UNCHANGED <<users, appts, cells, messages, jobs, outbox, now,
                   overridden>>

\* steps 3 to 5: initializeMonthIfNeeded, getEffectiveHighDemand, the gate
BookAdmit(p) ==
    /\ procs[p].pc = "admit"
    /\ LET a == procs[p].appt
           cs == initializeMonthIfNeeded(cells, appts[a].doctorName,
                                         appts[a].date)
           high == isHighDemand(getEffectiveHighDemand(
                                    cs, appts[a].doctorName, appts[a].date))
       IN  /\ cells' = cs
           /\ procs' = [procs EXCEPT ![p] =
                           IF procs[p].u.category = "At-Risk" /\ high
                           THEN Finish(p, "AdmissionDenied")
                           ELSE [@ EXCEPT !.pc = "write", !.high = high]]
    /\ UNCHANGED <<users, appts, messages, jobs, outbox, now, overridden>>

\* step 6: Appointment.findByIdAndUpdate(id, {status: "booked", userName})
BookWrite(p) ==
    /\ procs[p].pc = "write"
    /\ appts' = [appts EXCEPT ![procs[p].appt].status = "booked",
                              ![procs[p].appt].userName = procs[p].name]
    /\ procs' = [procs EXCEPT ![p].pc = "plan"]
    /\ UNCHANGED <<users, cells, messages, jobs, outbox, now,
                   overridden>>

\* the loop with the instantReminder flag never looked at
RECURSIVE InstantSendsEvery(_, _, _, _)
InstantSendsEvery(rows, i, instant, pool) ==
    IF i > Len(rows) THEN 0
    ELSE IF rows[i].status = "sent" /\ pool # {}
         THEN 1 + InstantSendsEvery(rows, i + 1, TRUE, pool)
         ELSE InstantSendsEvery(rows, i + 1, instant, pool)

\* calls of sendTelegramReminder made by the loop from iteration i on, with
\* the instantReminder flag as it stands and the texts Message.find returns
RECURSIVE InstantSends(_, _, _, _)
InstantSends(rows, i, instant, pool) ==
    IF i > Len(rows) THEN 0
    ELSE IF rows[i].status = "sent" /\ ~instant /\ pool # {}
         THEN 1 + InstantSends(rows, i + 1, TRUE, pool)
         ELSE InstantSends(rows, i + 1, instant, pool)

\* the continuation: now, the loop over reminderHours with at most one
\* instant message, the cron jobs of the future reminders and of auto-miss
BookPlan(p) ==
    /\ procs[p].pc = "plan"
    /\ LET a == procs[p].appt
           cat == procs[p].u.category
           mtype == MessageType(cat)
           hours == ReminderHours(cat)
           rows == PlanRows(mtype, appts[a].date, hours, now)
           sends == InstantSends(rows, 1, FALSE, messages[mtype])
           armed == PlanJobs(p, a, procs[p].uname, mtype, appts[a].date,
                             hours, now)
       IN  /\ procs' = [procs EXCEPT ![p].pc = "save", ![p].rows = rows,
                                     ![p].at = now]
           /\ IF sends > 0
              THEN \E t \in messages[mtype] :
                      /\ outbox' = outbox \o
                            [k \in 1..sends |->
                                [kind |-> "instant", appt |-> a,
                                 user |-> procs[p].uname, text |-> t,
                                 mtype |-> mtype, at |-> now,
                                 delivered |-> procs[p].u.linked,
                                 outcome |-> sendTelegramReminder(
                                     TRUE, procs[p].u.linked, FALSE)]]
                      /\ jobs' = jobs \cup
                            {[j EXCEPT !.used = {t},
                                       !.linked = procs[p].u.linked] :
                                j \in armed}
              ELSE /\ outbox' = outbox
                   /\ jobs' = jobs \cup
                         {[j EXCEPT !.linked = procs[p].u.linked] :
                             j \in armed}
    /\ UNCHANGED <<users, appts, cells, messages, now, overridden>>

\* appointment.reminders = reminders; appointment.save(); the response
BookSave(p) ==
    /\ procs[p].pc = "save"
    /\ appts' = [appts EXCEPT ![procs[p].appt].reminders = procs[p].rows]
    /\ procs' = [procs EXCEPT ![p] = Finish(p, "ok")]
    /\ UNCHANGED <<users, cells, messages, jobs, outbox, now, overridden>>

----------------------------------------------------------------------------
(* The clock advances through the instants of a set S. *)

Tick(S) ==
    /\ \E t \in S : /\ t > now
                    /\ \A x \in S : x > now => t <= x
                    /\ now' = t
    /\ UNCHANGED <<users, appts, cells, messages, jobs, procs, outbox,
                   overridden>>

----------------------------------------------------------------------------
(* Attendance.  Both appointments are booked by the same user; their       *)
(* reminder rows and cron jobs are those book made 49 hours ahead, and the *)
(* time of the first appointment has come.                                 *)

Histories == {h \in (0..MaxHist) \X (0..MaxHist) : h[1] + h[2] \in {0, MaxHist}}

Pool == [c \in MessageTypes |-> 1..MaxPool]

BookedAt(a) == SlotTime(a) - 49 * HourMin

BookedAppt(a, n, cat) ==
    [status |-> "booked", userName |-> n, doctorName |-> Doctor,
     date |-> SlotTime(a),
     reminders |-> PlanRows(MessageType(cat), SlotTime(a), ReminderHours(cat),
                            BookedAt(a))]

InitBooked ==
    /\ \E h \in Histories :
          users = [n \in UserNames |->
                      IF n = "ali" THEN UserWith(h[1], h[2], TRUE)
                      ELSE UserWith(0, 0, FALSE)]
    /\ appts = [a \in ApptIds |-> BookedAppt(a, "ali", users["ali"].category)]
    /\ jobs = UNION {{[j EXCEPT !.linked = TRUE] :
                         j \in PlanJobs("init", a, "ali",
                                        MessageType(users["ali"].category),
                                        SlotTime(a),
                                        ReminderHours(users["ali"].category),
                                        BookedAt(a))} : a \in ApptIds}
    /\ cells = {}
    /\ messages = Pool
    /\ procs = [p \in ProcIds |-> IdleProc]
    /\ outbox = <<>>
    /\ now = SlotTime("a1")
    /\ overridden = {}

\* two admin requests and the category override interleave
NextAttend ==
    \/ \E p \in Reqs, a \in ApptIds, st \in StatusInputs : SetStatus(p, a, st)
    \/ \E p \in Reqs : UpdFindUser(p)
    \/ \E p \in Reqs : UpdSave(p)
    \/ \E p \in Reqs : UpdLearn(p)
    \/ \E n \in UserNames, c \in Categories : SetCategory(n, c)

SpecAttend == InitBooked /\ [][NextAttend]_vars

\* the auto-miss job of a1 fires, and fires again a year later
AutoMissTimes ==
    {SlotTime("a1") + AutoMissDelay, SlotTime("a1") + AutoMissDelay + YearMin}

\* one admin request, the auto-miss callbacks and the clock interleave
NextAutoMiss ==
    \/ \E a \in ApptIds, st \in StatusInputs : SetStatus("r1", a, st)
    \/ \E p \in ProcIds : UpdFindUser(p)
    \/ \E p \in ProcIds : UpdSave(p)
    \/ \E p \in ProcIds : UpdLearn(p)
    \/ \E m \in AmProcs, j \in jobs : AutoMissCheck(m, j)
    \/ \E m \in AmProcs : AutoMissSet(m)
    \/ \E m \in AmProcs : AutoMissSurvey(m)
    \/ \E n \in UserNames, c \in Categories : SetCategory(n, c)
    \/ Tick(AutoMissTimes)

SpecAutoMiss == InitBooked /\ [][NextAutoMiss]_vars

----------------------------------------------------------------------------
(* Booking.  Both appointments are available, 49 hours before the first.   *)
(* Two book requests interleave while the clock passes the reminder lead   *)
(* times of the first appointment.                                         *)

\* the cell of a1's slot (Tuesday, 9 o'clock) in a year, and admin baselines
SlotCell(year, total, threshold) ==
    Cell(Doctor, year, 10, 2, 9, total, Whole(threshold), "auto")
AdminCell(year) ==
    Cell(Doctor, year, 10, NullDow, 9, 0, Whole(DefaultThreshold), "admin")

CellConfigs ==
    { {},
      {SlotCell(2025, 3, 3)},
      {SlotCell(2025, 2, 3)},
      {SlotCell(2024, 5, 3)},
      {AdminCell(2025)},
      {AdminCell(2024)},
      {SlotCell(2025, 5, MaxSafe)},
      {SlotCell(2025, 1, 3), AdminCell(2025)} }

\* ali with no history, with attended appointments only, with missed only
BookHistories ==
    {<<0, 0>>, <<MaxHist + 1, 0>>, <<0, MaxHist + 1>>}

FreeAppt(a) ==
    [status |-> "available", userName |-> "none", doctorName |-> Doctor,
     date |-> SlotTime(a), reminders |-> <<>>]

InitBook ==
    /\ \E h \in BookHistories :
          users = [n \in UserNames |->
                      IF n = "ali" THEN UserWith(h[1], h[2], TRUE)
                      ELSE UserWith(0, 0, FALSE)]
    /\ appts = [a \in ApptIds |-> FreeAppt(a)]
    /\ jobs = {}
    /\ cells \in CellConfigs
    /\ \E k \in 0..MaxPool : messages = [c \in MessageTypes |-> 1..k]
    /\ procs = [p \in ProcIds |-> IdleProc]
    /\ outbox = <<>>
    /\ now = BookedAt("a1")
    /\ overridden = {}

BookTimes ==
    {SlotTime("a1") - h * HourMin : h \in {48, 24, 6, 2, 1}}
    \cup {SlotTime("a1") - 30}

NextBook ==
    \/ \E p \in Reqs, a \in ApptIds, n \in UserNames : BookFind(p, a, n)
    \/ \E p \in Reqs : BookLoadUser(p)
    \/ \E p \in Reqs : BookAdmit(p)
    \/ \E p \in Reqs : BookWrite(p)
    \/ \E p \in Reqs : BookPlan(p)
    \/ \E p \in Reqs : BookSave(p)
    \/ Tick(BookTimes)

SpecBook == InitBook /\ [][NextBook]_vars

----------------------------------------------------------------------------
(* The reminder cron job of a future lead hour, armed by book with the     *)
(* pattern "minute hour day month *" of its reminderTime.                  *)

\* the jobs armed by the booking that armed j: they share usedMessages
SameBooking(j) == {k \in jobs : k.owner = j.owner /\ k.appt = j.appt}

\* Appointment.updateOne({_id, "reminders.sendTime": reminderTime},
\*                       {$set: {"reminders.$.status": "sent"}})
MarkSent(as, a, t) ==
    IF a \notin DOMAIN as THEN as
    ELSE LET hit == {i \in 1..Len(as[a].reminders) :
                        as[a].reminders[i].sendTime = t}
         IN  IF hit = {} THEN as
             ELSE LET i == CHOOSE x \in hit : \A y \in hit : x <= y
                  IN  [as EXCEPT ![a].reminders[i].status = "sent"]

\* the callback's test with the empty pool let through
ReminderSendsAlways(j, pool) == TRUE

\* the callback sends when Message.find returned texts
ReminderSends(j, pool) == pool # {}

\* pickUniqueMessage(messages, usedMessages): the texts it may choose.  With
\* none left, chosen is undefined and chosen.text is a TypeError
pickUniqueMessage(pool, used) == pool \ used

\* the callback of a reminder job: Message.find, pickUniqueMessage,
\* sendTelegramReminder, updateOne.  bot tells whether the Telegram bot is
\* configured, raises whether bot.sendMessage fails.  An exception ends the
\* callback where it is raised
ReminderCallback(j, bot, raises) ==
    /\ j \in jobs
    /\ j.kind = "reminder"
    /\ CronMatches(j.at, now)
    /\ now > j.lastFired
    /\ LET pool == messages[j.mtype]
           fired == [j EXCEPT !.lastFired = now, !.fires = @ + 1]
           free == pickUniqueMessage(pool, j.used)
           sent == sendTelegramReminder(bot, j.linked, raises)
       IN  IF ~ReminderSends(j, pool)
           THEN /\ jobs' = (jobs \ {j}) \cup {fired}
                /\ UNCHANGED <<outbox, appts>>
           ELSE IF free = {}
           THEN /\ jobs' = (jobs \ {j}) \cup {[fired EXCEPT !.threw = TRUE]}
                /\ UNCHANGED <<outbox, appts>>
           ELSE \E t \in free :
                   /\ jobs' = {[k EXCEPT !.used = @ \cup {t}] :
                                  k \in (SameBooking(j) \ {j}) \cup
                                        {[fired EXCEPT
                                             !.threw = @ \/ sent = "threw"]}}
                              \cup (jobs \ SameBooking(j))
                   /\ outbox' = Append(outbox,
                          [kind |-> "reminder", appt |-> j.appt,
                           user |-> j.uname, text |-> t, mtype |-> j.mtype,
                           at |-> j.at,
                           delivered |-> sent = "delivered",
                           outcome |-> sent])
                   /\ appts' = IF sent = "threw" THEN appts
                               ELSE MarkSent(appts, j.appt, j.at)
    /\ UNCHANGED <<users, cells, messages, procs, now, overridden>>

\* the job fires with the bot configured and Telegram accepting the message
ReminderFire(j) == ReminderCallback(j, TRUE, FALSE)

\* the pattern "0 * * * *" of the hourly task
HourlyMatches(t) == t % HourMin = 0

\* no handler is working on appointment a
Quiet(a) ==
    \A p \in ProcIds : procs[p].pc \in {"idle", "done"} \/ procs[p].appt # a

\* DELETE /appointments/delete/:id
DeleteAppt(a) ==
    /\ a \in DOMAIN appts
    /\ Quiet(a)
    /\ appts' = [x \in DOMAIN appts \ {a} |-> appts[x]]
    /\ UNCHANGED <<users, cells, messages, jobs, procs, outbox, now,
                   overridden>>

\* the process stops and starts again: the store stays, the handlers in
\* flight and the jobs cron.schedule holds in memory are gone, and nothing
\* at start-up reads the store to arm them again
Restart ==
    /\ jobs # {}
    /\ jobs' = {}
    /\ procs' = [p \in ProcIds |->
                    IF procs[p].pc \in {"idle", "done"} THEN procs[p]
                    ELSE [IdleProc EXCEPT !.pc = "done", !.kind = procs[p].kind,
                                          !.appt = procs[p].appt,
                                          !.result = "dropped"]]
    /\ UNCHANGED <<users, appts, cells, messages, outbox, now, overridden>>

\* the clock advances once every job due now has fired
TickCron(S) ==
    /\ \A j \in jobs : ~(CronMatches(j.at, now) /\ now > j.lastFired)
    /\ \A j \in jobs : ~(j.kind = "hourly" /\ HourlyMatches(now)
                                            /\ now > j.lastFired)
    /\ Tick(S)

\* a1 is free, 49 hours or 23 hours ahead of its day and hour; its date is
\* this year's or next year's
FarAhead == {0, YearMin}
RemindStarts == {SlotTime("a1") - 49 * HourMin, SlotTime("a1") - 23 * HourMin}
RemindPools == 0..(MaxPool + 1)

InitRemind ==
    /\ \E h \in {<<0, 0>>, <<MaxHist + 1, 0>>} :
          users = [n \in UserNames |->
                      IF n = "ali" THEN UserWith(h[1], h[2], TRUE)
                      ELSE UserWith(0, 0, FALSE)]
    /\ \E far \in FarAhead :
          appts = [a \in ApptIds |->
                      [FreeAppt(a) EXCEPT !.date = SlotTime(a) + far]]
    /\ jobs = {}
    /\ cells = {}
    /\ \E k \in RemindPools : messages = [c \in MessageTypes |-> 1..k]
    /\ procs = [p \in ProcIds |-> IdleProc]
    /\ outbox = <<>>
    /\ now \in RemindStarts
    /\ overridden = {}

RemindTimes ==
    {SlotTime("a1") - 24 * HourMin + y : y \in FarAhead}
    \cup {SlotTime("a1") - 2 * HourMin + y : y \in FarAhead}
    \cup {SlotTime("a1") + AutoMissDelay + y : y \in FarAhead}

\* one booking of a1, its reminder and auto-miss jobs, the admin's status
\* request and deletion, a restart and the clock
NextRemind ==
    \/ BookFind("r1", "a1", "ali")
    \/ BookLoadUser("r1")
    \/ BookAdmit("r1")
    \/ BookWrite("r1")
    \/ BookPlan("r1")
    \/ BookSave("r1")
    \/ \E j \in jobs : ReminderFire(j)
    \/ \E j \in jobs : AutoMissCheck("m1", j)
    \/ AutoMissSet("m1")
    \/ AutoMissSurvey("m1")
    \/ \E st \in StatusInputs :
          "a1" \in DOMAIN appts /\ SetStatus("r2", "a1", st)
    \/ \E p \in {"r2", "m1"} : UpdFindUser(p)
    \/ \E p \in {"r2", "m1"} : UpdSave(p)
    \/ \E p \in {"r2", "m1"} : UpdLearn(p)
    \/ DeleteAppt("a1")
    \/ Restart
    \/ TickCron(RemindTimes)

SpecRemind == InitRemind /\ [][NextRemind]_vars

----------------------------------------------------------------------------
(* A booking made before or after the appointment's time, with no admin.   *)
(* An available appointment stays in the store until the hourly cleanup    *)
(* that follows its time, so it can be booked up to an hour late.          *)

LateStarts == {SlotTime("a1") - 49 * HourMin, SlotTime("a1") + 30}

InitLate ==
    /\ \E h \in Histories :
          users = [n \in UserNames |->
                      IF n = "ali" THEN UserWith(h[1], h[2], TRUE)
                      ELSE UserWith(0, 0, FALSE)]
    /\ appts = [a \in ApptIds |-> FreeAppt(a)]
    /\ jobs = {}
    /\ cells = {}
    /\ messages = Pool
    /\ procs = [p \in ProcIds |-> IdleProc]
    /\ outbox = <<>>
    /\ now \in LateStarts
    /\ overridden = {}

LateTimes ==
    RemindTimes \cup {SlotTime("a1") + 40, SlotTime("a1") + 40 + YearMin}

NextLate ==
    \/ BookFind("r1", "a1", "ali")
    \/ BookLoadUser("r1")
    \/ BookAdmit("r1")
    \/ BookWrite("r1")
    \/ BookPlan("r1")
    \/ BookSave("r1")
    \/ \E j \in jobs : ReminderFire(j)
    \/ \E j \in jobs : AutoMissCheck("m1", j)
    \/ AutoMissSet("m1")
    \/ AutoMissSurvey("m1")
    \/ UpdFindUser("m1")
    \/ UpdSave("m1")
    \/ TickCron(LateTimes)

SpecLate == InitLate /\ [][NextLate]_vars

----------------------------------------------------------------------------
(* The hourly task: cleanup of past available appointments, then the late  *)
(* release of the demand cells of the available appointments that start    *)
(* within two hours.                                                       *)

ReleaseWindow == 2

\* the loop body with the cells of earlier years left alone
ReleaseOneThisYear(cs, as, a) ==
    LET demand == getEffectiveHighDemand(cs, as[a].doctorName, as[a].date)
    IN  IF demand # NoCell
           /\ demand.year = getFullYear(as[a].date)
           /\ AtLeast(demand.totalAppointments, demand.highDemandThreshold)
        THEN (cs \ {demand}) \cup
             {[demand EXCEPT !.highDemandThreshold = Whole(MaxSafe)]}
        ELSE cs

\* the loop body: the effective cell of appointment a, unlocked when its
\* total has reached its threshold
ReleaseOne(cs, as, a) ==
    LET demand == getEffectiveHighDemand(cs, as[a].doctorName, as[a].date)
    IN  IF demand # NoCell
           /\ AtLeast(demand.totalAppointments, demand.highDemandThreshold)
        THEN (cs \ {demand}) \cup
             {[demand EXCEPT !.highDemandThreshold = Whole(MaxSafe)]}
        ELSE cs

RECURSIVE ReleaseAll(_, _, _)
ReleaseAll(cs, as, S) ==
    IF S = {} THEN cs
    ELSE LET a == CHOOSE x \in S : TRUE
         IN  ReleaseAll(ReleaseOne(cs, as, a), as, S \ {a})

Hourly(j) ==
    /\ j \in jobs
    /\ j.kind = "hourly"
    /\ HourlyMatches(now)
    /\ now > j.lastFired
    /\ LET kept == {a \in DOMAIN appts :
                       ~(appts[a].date < now /\ appts[a].status = "available")}
           left == [a \in kept |-> appts[a]]
           soon == {a \in kept : /\ left[a].status = "available"
                                 /\ left[a].date >= now
                                 /\ left[a].date <= now + ReleaseWindow * HourMin}
       IN  /\ appts' = left
           /\ cells' = ReleaseAll(cells, left, soon)
    /\ jobs' = (jobs \ {j}) \cup {[j EXCEPT !.lastFired = now,
                                              !.fires = @ + 1]}
    /\ UNCHANGED <<users, messages, procs, outbox, now, overridden>>

\* an At-Risk user, every cell configuration, three hours before a1
InitRelease ==
    /\ users = [n \in UserNames |->
                   IF n = "ali" THEN UserWith(0, MaxHist + 1, TRUE)
                   ELSE UserWith(0, 0, FALSE)]
    /\ appts = [a \in ApptIds |-> FreeAppt(a)]
    /\ now = SlotTime("a1") - 3 * HourMin
    /\ jobs = {Job("hourly", "none", 0, now, "boot", "none", "none")}
    /\ cells \in CellConfigs
    /\ messages = Pool
    /\ procs = [p \in ProcIds |-> IdleProc]
    /\ outbox = <<>>
    /\ overridden = {}

ReleaseTimes ==
    {SlotTime("a1") - h * HourMin : h \in 0..2}
    \cup {SlotTime("a1") - 90, SlotTime("a1") - 30}

\* the hourly task, the clock, two book requests for a1 and the reminder
\* jobs they arm
NextRelease ==
    \/ \E j \in jobs : Hourly(j)
    \/ \E p \in Reqs, n \in UserNames : BookFind(p, "a1", n)
    \/ \E p \in Reqs : BookLoadUser(p)
    \/ \E p \in Reqs : BookAdmit(p)
    \/ \E p \in Reqs : BookWrite(p)
    \/ \E p \in Reqs : BookPlan(p)
    \/ \E p \in Reqs : BookSave(p)
    \/ \E j \in jobs : ReminderFire(j)
    \/ TickCron(ReleaseTimes)

SpecRelease == InitRelease /\ [][NextRelease]_vars

----------------------------------------------------------------------------
(* Identity.  Users are registered under the name the clinic sends; book   *)
(* looks the user up ignoring letter case and stores the name of the       *)
(* request; updateAppointmentStatus looks the stored name up exactly.      *)

\* POST /users/register: create the user when no user has exactly this name
Register(n) ==
    /\ n \notin DOMAIN users
    /\ users' = [x \in DOMAIN users \cup {n} |->
                    IF x = n THEN NewUser ELSE users[x]]
    /\ UNCHANGED <<appts, cells, messages, jobs, procs, outbox, now,
                   overridden>>

\* an appointment id that is not in the store
MissingAppt == "a9"

\* ali is registered, new or At-Risk; the slot of a1 is free or under an
\* admin baseline
InitIdentity ==
    /\ \E h \in {<<0, 0>>, <<0, MaxHist + 1>>} :
          users = [n \in {"ali"} |-> UserWith(h[1], h[2], TRUE)]
    /\ appts = [a \in ApptIds |-> FreeAppt(a)]
    /\ jobs = {}
    /\ cells \in {{}, {AdminCell(2025)}}
    /\ messages = Pool
    /\ procs = [p \in ProcIds |-> IdleProc]
    /\ outbox = <<>>
    /\ now = BookedAt("a1")
    /\ overridden = {}

\* registrations, and two requests, each a book or a status update
NextIdentity ==
    \/ \E n \in NameInputs \ {"sara"} : Register(n)
    \/ \E p \in Reqs, a \in {"a1", MissingAppt}, n \in NameInputs \ {"sara"} :
          BookFind(p, a, n)
    \/ \E p \in Reqs : BookLoadUser(p)
    \/ \E p \in Reqs : BookAdmit(p)
    \/ \E p \in Reqs : BookWrite(p)
    \/ \E p \in Reqs : BookPlan(p)
    \/ \E p \in Reqs : BookSave(p)
    \/ \E p \in Reqs, st \in StatusInputs : SetStatus(p, "a1", st)
    \/ \E p \in Reqs : UpdFindUser(p)
    \/ \E p \in Reqs : UpdSave(p)
    \/ \E p \in Reqs : UpdLearn(p)

SpecIdentity == InitIdentity /\ [][NextIdentity]_vars

----------------------------------------------------------------------------
(* Learning, await by await.  updateAppointmentStatus calls                *)
(* initializeMonthIfNeeded, and updateHighDemandStats calls it again       *)
(* before its upsert; each call is a findOne, then a find of last year's   *)
(* cells, then an insertMany of the copies.                                *)

\* the unique index of HighDemand
SameKey(c, d) ==
    /\ c.doctorName = d.doctorName /\ c.year = d.year /\ c.month = d.month
    /\ c.dayOfWeek = d.dayOfWeek /\ c.hour = d.hour

\* documents of docs that insertMany cannot add to cs
Duplicates(cs, docs) == {d \in docs : \E c \in cs : SameKey(c, d)}

\* where the learning goes on after an initializeMonthIfNeeded call returns
AfterEnsure(pc) ==
    IF pc \in {"learn", "lastYear", "insert"} THEN "learn2" ELSE "upsert"

\* const exists = await HighDemand.findOne({doctorName, year, month})
LearnExists(p) ==
    /\ procs[p].pc \in {"learn", "learn2"}
    /\ LET a == procs[p].appt
           exists == {c \in cells : /\ c.doctorName = appts[a].doctorName
                                    /\ c.year = getFullYear(appts[a].date)
                                    /\ c.month = getMonth1(appts[a].date)}
       IN  procs' = [procs EXCEPT ![p].pc =
                        IF exists # {} THEN AfterEnsure(procs[p].pc)
                        ELSE IF procs[p].pc = "learn" THEN "lastYear"
                        ELSE "lastYear2"]
    /\ UNCHANGED <<users, appts, cells, messages, jobs, outbox, now,
                   overridden>>

\* const lastYear = await HighDemand.find({doctorName, year: prevYear, month})
LearnLastYear(p) ==
    /\ procs[p].pc \in {"lastYear", "lastYear2"}
    /\ LET a == procs[p].appt
           lastYear == {c \in cells :
                           /\ c.doctorName = appts[a].doctorName
                           /\ c.year = getFullYear(appts[a].date) - 1
                           /\ c.month = getMonth1(appts[a].date)}
       IN  procs' = [procs EXCEPT ![p] =
                        IF lastYear = {}
                        THEN [@ EXCEPT !.pc = AfterEnsure(procs[p].pc)]
                        ELSE [@ EXCEPT !.snap = lastYear,
                                       !.pc = IF procs[p].pc = "lastYear"
                                              THEN "insert" ELSE "insert2"]]
    /\ UNCHANGED <<users, appts, cells, messages, jobs, outbox, now,
                   overridden>>

\* await HighDemand.insertMany(copies): the documents go in one by one, in
\* the order find returned them, until one meets the unique index; the call
\* then throws, and so does updateAppointmentStatus
LearnInsert(p) ==
    /\ procs[p].pc \in {"insert", "insert2"}
    /\ LET a == procs[p].appt
           copies == {Cell(appts[a].doctorName, getFullYear(appts[a].date),
                           getMonth1(appts[a].date), r.dayOfWeek, r.hour, 0,
                           r.highDemandThreshold, "auto") :
                      r \in procs[p].snap}
           dup == Duplicates(cells, copies)
       IN  IF dup = {}
           THEN /\ cells' = cells \cup copies
                /\ procs' = [procs EXCEPT ![p] =
                                [@ EXCEPT !.pc = AfterEnsure(procs[p].pc),
                                          !.snap = {}]]
           ELSE /\ \E before \in SUBSET (copies \ dup) :
                       cells' = cells \cup before
                /\ procs' = [procs EXCEPT ![p] =
                                [Finish(p, "DuplicateKey")
                                     EXCEPT !.applied = TRUE]]
    /\ UNCHANGED <<users, appts, messages, jobs, outbox, now, overridden>>

\* the findOneAndUpdate of updateHighDemandStats
LearnUpsert(p) ==
    /\ procs[p].pc = "upsert"
    /\ LET a == procs[p].appt
       IN  cells' = IncAttended(cells, appts[a].doctorName, appts[a].date)
    /\ procs' = [procs EXCEPT ![p] = AfterUpdate(p)]
    /\ UNCHANGED <<users, appts, messages, jobs, outbox, now, overridden>>

\* last year's cells of the two slots, and this year's
LastYearCells ==
    {Cell(Doctor, 2024, 10, 2, 9, 3, Whole(DefaultThreshold), "auto"),
     Cell(Doctor, 2024, 10, 3, 10, 3, Whole(DefaultThreshold), "auto"),
     Cell(Doctor, 2024, 10, NullDow, 9, 0, Whole(DefaultThreshold), "admin")}
ThisYearCells ==
    {Cell(Doctor, 2025, 10, 2, 9, 1, Whole(DefaultThreshold), "auto")}

InitLearn ==
    /\ \E h \in Histories :
          users = [n \in UserNames |->
                      IF n = "ali" THEN UserWith(h[1], h[2], TRUE)
                      ELSE UserWith(0, 0, FALSE)]
    /\ appts = [a \in ApptIds |-> BookedAppt(a, "ali", users["ali"].category)]
    /\ jobs = {}
    /\ \E L \in SUBSET LastYearCells, T \in SUBSET ThisYearCells :
          cells = L \cup T
    /\ messages = Pool
    /\ procs = [p \in ProcIds |-> IdleProc]
    /\ outbox = <<>>
    /\ now = SlotTime("a2")
    /\ overridden = {}

\* two admin requests mark appointments, the learning taken await by await
NextLearn ==
    \/ \E p \in Reqs, a \in ApptIds, st \in Terminal : SetStatus(p, a, st)
    \/ \E p \in Reqs : UpdFindUser(p)
    \/ \E p \in Reqs : UpdSave(p)
    \/ \E p \in Reqs : LearnExists(p)
    \/ \E p \in Reqs : LearnLastYear(p)
    \/ \E p \in Reqs : LearnInsert(p)
    \/ \E p \in Reqs : LearnUpsert(p)

SpecLearn == InitLearn /\ [][NextLearn]_vars

----------------------------------------------------------------------------
(* Monthly recalculation: the task "0 2 1 * *" runs, for every doctor of   *)
(* the collection, recalculateDynamicThreshold and limitHighDemandHours,   *)
(* await by await.  targets records the (doctor, year, month) the run has  *)
(* worked on.                                                              *)

MonthCellsOf(cs, doctor, year, month) ==
    {c \in cs : c.doctorName = doctor /\ c.year = year /\ c.month = month}

RECURSIVE SumTotals(_)
SumTotals(S) ==
    IF S = {} THEN 0
    ELSE LET c == CHOOSE x \in S : TRUE
         IN  c.totalAppointments + SumTotals(S \ {c})

\* sorted[k].totalAppointments after the sort by total, descending
RECURSIVE SortedTotal(_, _)
SortedTotal(S, k) ==
    LET m == CHOOSE c \in S :
                 \A d \in S : c.totalAppointments >= d.totalAppointments
    IN  IF k = 0 THEN m.totalAppointments ELSE SortedTotal(S \ {m}, k - 1)

FracMax(a, b) == IF a[1] * b[2] >= b[1] * a[2] THEN a ELSE b

LightModeBelow == 3

\* recalculateDynamicThreshold with the top-25% cutoff left out
ThresholdFromMeanOnly(hours) ==
    LET n == Cardinality(hours)
        sum == SumTotals(hours)
    IN  IF n < LightModeBelow THEN Frac(11 * sum, 10 * n)
        ELSE Frac(6 * sum, 5 * n)

\* the threshold written by recalculateDynamicThreshold for the cells read:
\* avg * 1.1 in light mode, else max(avg * 1.2, top25Cutoff)
NewThreshold(hours) ==
    LET n == Cardinality(hours)
        sum == SumTotals(hours)
        threshold == Frac(6 * sum, 5 * n)
        top25Index == n \div 4
        cut == SortedTotal(hours, top25Index)
        top25Cutoff == IF cut # 0 THEN Whole(cut) ELSE threshold
    IN  IF n < LightModeBelow THEN Frac(11 * sum, 10 * n)
        ELSE FracMax(threshold, top25Cutoff)

\* the possible values of top = sorted.slice(0, maxHigh): the order of cells
\* with equal totals is the order find returned them in
Tops(hours) ==
    LET maxHigh == Cardinality(hours) \div 2
    IN  {T \in SUBSET hours :
            /\ Cardinality(T) = maxHigh
            /\ \A t \in T, o \in hours \ T :
                   t.totalAppointments >= o.totalAppointments}

\* the pattern "0 2 1 * *"
MonthlyMatches(t) ==
    getDate(t) = 1 /\ getHours(t) = 2 /\ t % HourMin = 0

\* year and prevMonth of the callback
TargetYear(at) == getFullYear(at)
TargetMonth(at) == getMonth1(at) - 1

\* the loop goes to the next doctor, or the callback ends
NextDoctor(k, pr) ==
    IF pr.left = {} THEN [pr EXCEPT !.pc = "done", !.result = "ok",
                                    !.snap = {}, !.top = {}]
    ELSE [pr EXCEPT !.pc = "recalcFind", !.snap = {}, !.top = {}]

\* the task fires: const doctors = await HighDemand.distinct("doctorName")
MonthlyStart(k, j) ==
    /\ j \in jobs
    /\ j.kind = "monthly"
    /\ MonthlyMatches(now)
    /\ now > j.lastFired
    /\ procs[k].pc \in {"idle", "done"}
    /\ jobs' = (jobs \ {j}) \cup {[j EXCEPT !.lastFired = now,
                                              !.fires = @ + 1]}
    /\ procs' = [procs EXCEPT ![k] =
                    NextDoctor(k, [IdleProc EXCEPT
                                      !.kind = "monthly", !.at = now,
                                      !.left = {c.doctorName : c \in cells}])]
    /\ UNCHANGED <<users, appts, cells, messages, outbox, now, overridden>>

\* recalculateDynamicThreshold: const hours = await HighDemand.find(...)
RecalcFind(k) ==
    /\ procs[k].pc = "recalcFind"
    /\ \E d \in procs[k].left :
          LET year == TargetYear(procs[k].at)
              month == TargetMonth(procs[k].at)
              hours == MonthCellsOf(cells, d, year, month)
          IN  procs' = [procs EXCEPT ![k] =
                           [@ EXCEPT !.name = d,
                                     !.left = @ \ {d},
                                     !.targets = @ \cup {<<d, year, month>>},
                                     !.snap = hours,
                                     !.pc = IF hours = {} THEN "limitFind"
                                            ELSE "recalcUpdate"]]
    /\ UNCHANGED <<users, appts, cells, messages, jobs, outbox, now,
                   overridden>>

\* await HighDemand.updateMany({doctorName, year, month}, {$set: ...})
RecalcUpdate(k) ==
    /\ procs[k].pc = "recalcUpdate"
    /\ LET year == TargetYear(procs[k].at)
           month == TargetMonth(procs[k].at)
           hit == MonthCellsOf(cells, procs[k].name, year, month)
       IN  cells' = (cells \ hit) \cup
                    {[c EXCEPT !.highDemandThreshold =
                                   NewThreshold(procs[k].snap)] : c \in hit}
    /\ procs' = [procs EXCEPT ![k].pc = "limitFind"]
    /\ UNCHANGED <<users, appts, messages, jobs, outbox, now, overridden>>

\* limitHighDemandHours: const hours = await HighDemand.find(...)
LimitFind(k) ==
    /\ procs[k].pc = "limitFind"
    /\ LET hours == MonthCellsOf(cells, procs[k].name,
                                 TargetYear(procs[k].at),
                                 TargetMonth(procs[k].at))
       IN  IF hours = {}
           THEN procs' = [procs EXCEPT ![k] = NextDoctor(k, procs[k])]
           ELSE \E T \in Tops(hours) :
                   procs' = [procs EXCEPT ![k] =
                                [@ EXCEPT !.snap = hours, !.top = T,
                                          !.pc = "limitSave"]]
    /\ UNCHANGED <<users, appts, cells, messages, jobs, outbox, now,
                   overridden>>

\* one turn of the loop: h.highDemandThreshold = isHigh ? ... ; await h.save()
LimitSave(k) ==
    /\ procs[k].pc = "limitSave"
    /\ \E h \in procs[k].snap :
          LET isHigh == \E t \in procs[k].top :
                            t.hour = h.hour /\ t.dayOfWeek = h.dayOfWeek
              todo == procs[k].snap \ {h}
          IN  /\ cells' = IF isHigh THEN cells
                          ELSE {IF SameKey(c, h)
                                THEN [c EXCEPT !.highDemandThreshold =
                                                   Whole(MaxSafe)]
                                ELSE c : c \in cells}
              /\ procs' = [procs EXCEPT ![k] =
                              IF todo = {} THEN NextDoctor(k, procs[k])
                              ELSE [@ EXCEPT !.snap = todo]]
    /\ UNCHANGED <<users, appts, messages, jobs, outbox, now, overridden>>

\* the cells a month may hold: three learned slots with any total up to the
\* bound, and an admin baseline row
OtherDoctor == "DrOmar"
LearnedKeys == {<<2, 9>>, <<3, 10>>, <<4, 11>>}
LearnedMonths(doctor, year, month) ==
    {{Cell(doctor, year, month, k[1], k[2], f[k], Whole(DefaultThreshold),
           "auto") : k \in K} :
        K \in SUBSET LearnedKeys, f \in [LearnedKeys -> 0..MaxTotal]}
AdminRow(doctor, year, month, hour) ==
    Cell(doctor, year, month, NullDow, hour, 0, Whole(DefaultThreshold),
         "admin")
DecemberCells ==
    {Cell(Doctor, 2025, 12, 2, 9, 1, Whole(DefaultThreshold), "auto"),
     Cell(Doctor, 2025, 12, 3, 10, 2, Whole(DefaultThreshold), "auto"),
     Cell(Doctor, 2025, 12, 4, 11, 3, Whole(DefaultThreshold), "auto")}
OtherDoctorCells ==
    {Cell(OtherDoctor, 2025, 10, 2, 9, 2, Whole(DefaultThreshold), "auto"),
     AdminRow(OtherDoctor, 2025, 10, 9),
     AdminRow(OtherDoctor, 2025, 10, 10)}

\* the first of November, of December and of January, at 02:00
MonthlyTimes == {(d * 24 + 2) * HourMin : d \in {31, 61, 92}}

InitRecalc ==
    /\ users = [n \in UserNames |-> UserWith(0, 0, FALSE)]
    /\ appts = [a \in ApptIds |-> BookedAppt(a, "ali", "Good")]
    /\ \E L \in LearnedMonths(Doctor, 2025, 10),
          A \in SUBSET {AdminRow(Doctor, 2025, 10, 9)},
          D \in {{}, DecemberCells}, O \in {{}, OtherDoctorCells} :
          cells = L \cup A \cup D \cup O
    /\ now = 30 * DayMin
    /\ jobs = {Job("monthly", "none", 0, now, "boot", "none", "none")}
    /\ messages = Pool
    /\ procs = [p \in ProcIds |-> IdleProc]
    /\ outbox = <<>>
    /\ overridden = {}

\* the clock advances once the monthly task due now has fired and ended
TickMonthly(S) ==
    /\ \A j \in jobs : ~(j.kind = "monthly" /\ MonthlyMatches(now)
                                             /\ now > j.lastFired)
    /\ \A k \in CronProcs : procs[k].pc \in {"idle", "done"}
    /\ Tick(S)

NextRecalc ==
    \/ \E k \in CronProcs, j \in jobs : MonthlyStart(k, j)
    \/ \E k \in CronProcs : RecalcFind(k)
    \/ \E k \in CronProcs : RecalcUpdate(k)
    \/ \E k \in CronProcs : LimitFind(k)
    \/ \E k \in CronProcs : LimitSave(k)
    \/ TickMonthly(MonthlyTimes)

SpecRecalc == InitRecalc /\ [][NextRecalc]_vars

----------------------------------------------------------------------------
(* Admin baseline (POST /high-demand/setup) and month-end learning (the    *)
(* task "59 23 28-31 * *"), await by await, next to the learning of        *)
(* attended appointments and the hourly task.                              *)

\* req.body.hours and req.body.highDemandThreshold (<<>>: not sent)
HoursInputs == {<<>>, <<9>>, <<10>>, <<9, 10>>, <<10, 10>>}
ThresholdInputs == {<<>>, <<5>>}

\* the entries of the request, in the order of hours
BaselineEntries(doctor, year, month, hours, threshold) ==
    [i \in DOMAIN hours |->
        Cell(doctor, year, month, NullDow, hours[i], 0,
             IF threshold # <<>> THEN Whole(threshold[1])
             ELSE Whole(DefaultThreshold),
             "admin")]

\* insertMany(entries): the documents go in, in order, until one meets the
\* unique index
RECURSIVE InsertOrdered(_, _, _)
InsertOrdered(cs, entries, i) ==
    IF i > Len(entries) THEN cs
    ELSE IF Duplicates(cs, {entries[i]}) # {} THEN cs
    ELSE InsertOrdered(cs \cup {entries[i]}, entries, i + 1)

InsertFails(cs, entries) ==
    Cardinality(InsertOrdered(cs, entries, 1))
        < Cardinality(cs) + Len(entries)

\* the validation of the body, then
\* await HighDemand.deleteMany({doctorName, year, month, source: "admin"});
\* snap keeps the rows deleted
BaselineDelete(p, year, month, hours, threshold) ==
    /\ CanStart(p)
    /\ LET gone == {c \in MonthCellsOf(cells, Doctor, year, month) :
                       c.source = "admin"}
       IN  IF hours = <<>>
           THEN /\ cells' = cells
                /\ procs' = [procs EXCEPT ![p] =
                                [IdleProc EXCEPT !.kind = "setup",
                                                 !.pc = "done",
                                                 !.result = "BadRequest"]]
           ELSE /\ cells' = cells \ gone
                /\ procs' = [procs EXCEPT ![p] =
                                [IdleProc EXCEPT
                                    !.kind = "setup",
                                    !.pc = "baselineInsert",
                                    !.name = Doctor,
                                    !.snap = gone,
                                    !.rows = BaselineEntries(Doctor, year,
                                                 month, hours, threshold)]]
    /\ UNCHANGED <<users, appts, messages, jobs, outbox, now, overridden>>

\* await HighDemand.insertMany(entries); an error is answered 500
BaselineInsert(p) ==
    /\ procs[p].pc = "baselineInsert"
    /\ cells' = InsertOrdered(cells, procs[p].rows, 1)
    /\ procs' = [procs EXCEPT ![p] =
                    [@ EXCEPT !.pc = "done",
                              !.applied = ~InsertFails(cells, procs[p].rows),
                              !.result = IF InsertFails(cells, procs[p].rows)
                                         THEN "Failed" ELSE "ok"]]
    /\ UNCHANGED <<users, appts, messages, jobs, outbox, now, overridden>>

\* the pattern "59 23 28-31 * *"
MonthEndMatches(t) ==
    t % HourMin = 59 /\ getHours(t) = 23 /\ getDate(t) \in 28..31

\* grouped: the attended appointments of the month of instant t, counted by
\* doctor and hour
Grouped(t) ==
    LET attended == {a \in DOMAIN appts :
                        /\ appts[a].status = "attended"
                        /\ getFullYear(appts[a].date) = getFullYear(t)
                        /\ getMonth1(appts[a].date) = getMonth1(t)}
    IN  {<<appts[a].doctorName, getHours(appts[a].date),
           Cardinality({b \in attended :
                           /\ appts[b].doctorName = appts[a].doctorName
                           /\ getHours(appts[b].date)
                                  = getHours(appts[a].date)})>> :
         a \in attended}

\* the task fires: const attended = await Appointment.find(...)
MonthEndStart(k, j) ==
    /\ j \in jobs
    /\ j.kind = "monthEnd"
    /\ MonthEndMatches(now)
    /\ now > j.lastFired
    /\ procs[k].pc \in {"idle", "done"}
    /\ jobs' = (jobs \ {j}) \cup {[j EXCEPT !.lastFired = now,
                                              !.fires = @ + 1]}
    /\ procs' = [procs EXCEPT ![k] =
                    IF Grouped(now) = {}
                    THEN [IdleProc EXCEPT !.kind = "monthEnd", !.at = now,
                                          !.pc = "done", !.result = "ok"]
                    ELSE [IdleProc EXCEPT !.kind = "monthEnd", !.at = now,
                                          !.pc = "monthEndUpdate",
                                          !.left = Grouped(now)]]
    /\ UNCHANGED <<users, appts, cells, messages, outbox, now, overridden>>

\* one turn of the loop: findOneAndUpdate({doctorName, year, month, hour},
\* {$inc: {totalAppointments: grouped[key]}}, {upsert: true}).  The filter
\* has no dayOfWeek: the first cell of that hour is the one updated, and the
\* cell of an upsert gets the defaults of the schema
MonthEndUpdate(k) ==
    /\ procs[k].pc = "monthEndUpdate"
    /\ \E g \in procs[k].left :
          LET year == getFullYear(procs[k].at)
              month == getMonth1(procs[k].at)
              hit == {c \in MonthCellsOf(cells, g[1], year, month) :
                         c.hour = g[2]}
          IN  /\ IF hit = {}
                 THEN cells' = cells \cup
                                {Cell(g[1], year, month, NullDow, g[2], g[3],
                                      Whole(DefaultThreshold), "auto")}
                 ELSE \E c \in hit :
                         cells' = (cells \ {c}) \cup
                                  {[c EXCEPT !.totalAppointments = @ + g[3]]}
              /\ procs' = [procs EXCEPT ![k] =
                              IF procs[k].left = {g}
                              THEN [@ EXCEPT !.pc = "done", !.result = "ok",
                                             !.left = {}]
                              ELSE [@ EXCEPT !.left = @ \ {g}]]
    /\ UNCHANGED <<users, appts, messages, jobs, outbox, now, overridden>>

\* the month as initializeMonthIfNeeded and a later baseline for hour 10
\* leave it: the copy of last year's admin row, and the admin row of hour 10
CopiedMonth ==
    LastYearCells
    \cup {Cell(Doctor, 2025, 10, c.dayOfWeek, c.hour, 0,
               c.highDemandThreshold, "auto") : c \in LastYearCells}
    \cup {AdminRow(Doctor, 2025, 10, 10)}

\* a1 is booked, a2 is free; the cells are last year's, with or without this
\* year's admin baseline, or the copied month; half an hour before the
\* hourly task covers a2
BaselineCells ==
    {L \cup A : L \in SUBSET LastYearCells,
                A \in SUBSET {AdminRow(Doctor, 2025, 10, 9)}}
    \cup {CopiedMonth}

InitBaseline ==
    /\ users = [n \in UserNames |-> UserWith(0, 0, FALSE)]
    /\ appts = [a \in ApptIds |->
                   IF a = "a1" THEN BookedAppt(a, "ali", "Good")
                   ELSE FreeAppt(a)]
    /\ cells \in BaselineCells
    /\ now = SlotTime("a2") - 150
    /\ jobs = {Job("hourly", "none", 0, now, "boot", "none", "none"),
               Job("monthEnd", "none", 0, now, "boot", "none", "none")}
    /\ messages = Pool
    /\ procs = [p \in ProcIds |-> IdleProc]
    /\ outbox = <<>>
    /\ overridden = {}

\* 08:00 on the day of a2, and 23:59 on 28 October
BaselineTimes ==
    {SlotTime("a2") - 2 * HourMin, 27 * DayMin + 23 * HourMin + 59}

\* the clock advances once the tasks due now have fired and ended
TickTasks(S) ==
    /\ \A j \in jobs : ~(j.kind = "hourly" /\ HourlyMatches(now)
                                            /\ now > j.lastFired)
    /\ \A j \in jobs : ~(j.kind = "monthEnd" /\ MonthEndMatches(now)
                                              /\ now > j.lastFired)
    /\ \A k \in CronProcs : procs[k].pc \in {"idle", "done"}
    /\ Tick(S)

NextBaseline ==
    \/ \E p \in Reqs, h \in HoursInputs, t \in ThresholdInputs :
          BaselineDelete(p, 2025, 10, h, t)
    \/ \E p \in Reqs : BaselineInsert(p)
    \/ \E p \in Reqs : SetStatus(p, "a1", "attended")
    \/ \E p \in Reqs : UpdFindUser(p)
    \/ \E p \in Reqs : UpdSave(p)
    \/ \E p \in Reqs : LearnExists(p)
    \/ \E p \in Reqs : LearnLastYear(p)
    \/ \E p \in Reqs : LearnInsert(p)
    \/ \E p \in Reqs : LearnUpsert(p)
    \/ \E j \in jobs : Hourly(j)
    \/ \E k \in CronProcs, j \in jobs : MonthEndStart(k, j)
    \/ \E k \in CronProcs : MonthEndUpdate(k)
    \/ TickTasks(BaselineTimes)

SpecBaseline == InitBaseline /\ [][NextBaseline]_vars

----------------------------------------------------------------------------
(* Reminder texts.  Two book requests for a1 interleave, 49 or 23 hours    *)
(* ahead, with up to MaxPool + 1 texts per category; the clock passes the  *)
(* lead times and the reminder jobs fire.                                  *)

InitTexts ==
    /\ users = [n \in UserNames |-> UserWith(0, 0, TRUE)]
    /\ appts = [a \in ApptIds |-> FreeAppt(a)]
    /\ jobs = {}
    /\ cells = {}
    /\ \E k \in RemindPools : messages = [c \in MessageTypes |-> 1..k]
    /\ procs = [p \in ProcIds |-> IdleProc]
    /\ outbox = <<>>
    /\ now \in RemindStarts
    /\ overridden = {}

TextTimes == {SlotTime("a1") - 24 * HourMin, SlotTime("a1") - 2 * HourMin}

NextTexts ==
    \/ \E p \in Reqs, n \in UserNames : BookFind(p, "a1", n)
    \/ \E p \in Reqs : BookLoadUser(p)
    \/ \E p \in Reqs : BookAdmit(p)
    \/ \E p \in Reqs : BookWrite(p)
    \/ \E p \in Reqs : BookPlan(p)
    \/ \E p \in Reqs : BookSave(p)
    \/ \E j \in jobs : ReminderFire(j)
    \/ TickCron(TextTimes)

SpecTexts == InitTexts /\ [][NextTexts]_vars


----------------------------------------------------------------------------
(* The notifier.  One booking of a1 by a user with or without a Telegram   *)
(* chat id; when a reminder job fires the bot may be missing and           *)
(* bot.sendMessage may fail.                                               *)

NotifyHistories == {<<0, 0>>, <<0, MaxHist + 1>>}
NotifyPools == 1..(MaxPool + 1)

InitNotify ==
    /\ \E h \in NotifyHistories, linked \in BOOLEAN :
          users = [n \in UserNames |->
                      IF n = "ali" THEN UserWith(h[1], h[2], linked)
                      ELSE UserWith(0, 0, FALSE)]
    /\ appts = [a \in ApptIds |-> FreeAppt(a)]
    /\ jobs = {}
    /\ cells = {}
    /\ \E k \in NotifyPools : messages = [c \in MessageTypes |-> 1..k]
    /\ procs = [p \in ProcIds |-> IdleProc]
    /\ outbox = <<>>
    /\ now \in RemindStarts
    /\ overridden = {}

NotifyTimes ==
    {SlotTime("a1") - h * HourMin : h \in {48, 24, 6, 2, 1}}

NextNotify ==
    \/ BookFind("r1", "a1", "ali")
    \/ BookLoadUser("r1")
    \/ BookAdmit("r1")
    \/ BookWrite("r1")
    \/ BookPlan("r1")
    \/ BookSave("r1")
    \/ \E j \in jobs, bot \in BOOLEAN, raises \in BOOLEAN :
          ReminderCallback(j, bot, raises)
    \/ \E st \in StatusInputs : SetStatus("r2", "a1", st)
    \/ UpdFindUser("r2")
    \/ UpdSave("r2")
    \/ UpdLearn("r2")
    \/ TickCron(NotifyTimes)

SpecNotify == InitNotify /\ [][NextNotify]_vars


----------------------------------------------------------------------------
(* Learning and the month-end task alone.  Both appointments are booked;   *)
(* the admin marks booked appointments, one request at a time, and the     *)
(* month-end task fires on 28, 29, 30 and 31 October.                      *)

InitMonthEnd ==
    /\ users = [n \in UserNames |-> UserWith(0, 0, FALSE)]
    /\ appts = [a \in ApptIds |-> BookedAppt(a, "ali", "Good")]
    /\ cells \in {{}, LastYearCells}
    /\ now = SlotTime("a2")
    /\ jobs = {Job("monthEnd", "none", 0, now, "boot", "none", "none")}
    /\ messages = Pool
    /\ procs = [p \in ProcIds |-> IdleProc]
    /\ outbox = <<>>
    /\ overridden = {}

\* 23:59 on 28, 29, 30 and 31 October
MonthEndTimes == {d * DayMin + 23 * HourMin + 59 : d \in 27..30}

NextMonthEnd ==
    \/ \E a \in ApptIds, st \in {"attended", "missed"} :
          appts[a].status = "booked" /\ SetStatus("r1", a, st)
    \/ UpdFindUser("r1")
    \/ UpdSave("r1")
    \/ LearnExists("r1")
    \/ LearnLastYear("r1")
    \/ LearnInsert("r1")
    \/ LearnUpsert("r1")
    \/ \E k \in CronProcs, j \in jobs : MonthEndStart(k, j)
    \/ \E k \in CronProcs : MonthEndUpdate(k)
    \/ TickTasks(MonthEndTimes)

SpecMonthEnd == InitMonthEnd /\ [][NextMonthEnd]_vars


----------------------------------------------------------------------------
(* Counters.  Both appointments are booked by a user with no history, or   *)
(* one by each user; two admin requests mark booked appointments, and      *)
(* their awaits interleave.                                                *)

InitCounts ==
    /\ users = [n \in UserNames |-> UserWith(0, 0, FALSE)]
    /\ \E n \in UserNames :
          appts = [a \in ApptIds |->
                      BookedAppt(a, IF a = "a1" THEN "ali" ELSE n, "Good")]
    /\ jobs = {}
    /\ cells = {}
    /\ messages = Pool
    /\ procs = [p \in ProcIds |-> IdleProc]
    /\ outbox = <<>>
    /\ now = SlotTime("a2")
    /\ overridden = {}

NextCounts ==
    \/ \E p \in Reqs, a \in ApptIds, st \in {"attended", "missed"} :
          appts[a].status = "booked" /\ SetStatus(p, a, st)
    \/ \E p \in Reqs : UpdFindUser(p)
    \/ \E p \in Reqs : UpdSave(p)
    \/ \E p \in Reqs : UpdLearn(p)

SpecCounts == InitCounts /\ [][NextCounts]_vars


----------------------------------------------------------------------------
(* Status requests that find no appointment or no user.  a1 is available;  *)
(* a2 is booked, under the registered name or under the name as a request  *)
(* spelled it; the admin's requests run one after the other.               *)

InitStatus ==
    /\ users = [n \in {"ali"} |-> UserWith(0, 0, FALSE)]
    /\ \E n \in {"ali", "ALI"} :
          appts = [a \in ApptIds |->
                      IF a = "a1" THEN FreeAppt(a)
                      ELSE BookedAppt(a, n, "Good")]
    /\ jobs = {}
    /\ cells = {}
    /\ messages = Pool
    /\ procs = [p \in ProcIds |-> IdleProc]
    /\ outbox = <<>>
    /\ now = SlotTime("a2")
    /\ overridden = {}

NextStatus ==
    \/ \E p \in Reqs, a \in ApptIds \cup {MissingAppt}, st \in StatusInputs :
          /\ \A q \in Reqs : procs[q].pc \in {"idle", "done"}
          /\ SetStatus(p, a, st)
    \/ \E p \in Reqs : UpdFindUser(p)
    \/ \E p \in Reqs : UpdSave(p)
    \/ \E p \in Reqs : UpdLearn(p)

SpecStatus == InitStatus /\ [][NextStatus]_vars


----------------------------------------------------------------------------
(* Late release and a later appointment of the same cell.  a1 and a2 are   *)
(* available, on the same weekday and hour a week apart; the hourly task   *)
(* runs two hours and one hour before a1, and an At-Risk user books.       *)

WeekMin == 7 * DayMin

WindowCells ==
    { {SlotCell(2025, 3, 3)},
      {SlotCell(2024, 5, 3)},
      {SlotCell(2025, 2, 3)},
      {AdminCell(2025)},
      {SlotCell(2025, 3, 3), SlotCell(2024, 5, 3)} }

InitWindow ==
    /\ users = [n \in UserNames |->
                   IF n = "ali" THEN UserWith(0, MaxHist + 1, TRUE)
                   ELSE UserWith(0, 0, FALSE)]
    /\ appts = [a \in ApptIds |->
                   [FreeAppt(a) EXCEPT
                       !.date = IF a = "a1" THEN SlotTime("a1")
                                ELSE SlotTime("a1") + WeekMin]]
    /\ now = SlotTime("a1") - 3 * HourMin
    /\ jobs = {Job("hourly", "none", 0, now, "boot", "none", "none")}
    /\ cells \in WindowCells
    /\ messages = Pool
    /\ procs = [p \in ProcIds |-> IdleProc]
    /\ outbox = <<>>
    /\ overridden = {}

WindowTimes == {SlotTime("a1") - h * HourMin : h \in 1..2}

NextWindow ==
    \/ \E j \in jobs : Hourly(j)
    \/ \E p \in Reqs, a \in ApptIds : BookFind(p, a, "ali")
    \/ \E p \in Reqs : BookLoadUser(p)
    \/ \E p \in Reqs : BookAdmit(p)
    \/ \E p \in Reqs : BookWrite(p)
    \/ \E p \in Reqs : BookPlan(p)
    \/ \E p \in Reqs : BookSave(p)
    \/ TickCron(WindowTimes)

SpecWindow == InitWindow /\ [][NextWindow]_vars


----------------------------------------------------------------------------
(* POST /appointments/add.  The handler builds the slots in synchronous    *)
(* loops and inserts them with one insertMany; the model follows the loops *)
(* turn by turn, with no other handler in between.  A request gives the    *)
(* days of its date range, startHour, endHour and intervalMinutes (<<>>    *)
(* when left out); startMinute and endMinute are 0.                        *)

DefaultInterval == 60

DaysInputs == {{6}, {6, 7}}
EndHourInputs == {<<>>, <<9>>, <<10>>}
IntervalInputs == {<<>>, <<0>>, <<30>>, <<60>>, <<-30>>}

\* ids of the documents insertMany creates
NewIds == <<"n1", "n2", "n3", "n4", "n5", "n6", "n7", "n8", "n9">>

Slot(t) ==
    [status |-> "available", userName |-> "none", doctorName |-> Doctor,
     date |-> t, reminders |-> <<>>]

\* const step = intervalMinutes || 60
StepOf(interval) ==
    IF interval = <<>> \/ interval[1] = 0 THEN DefaultInterval
    ELSE interval[1]

MinOf(S) == CHOOSE x \in S : \A y \in S : x <= y

\* the slots of case 1, one per day at startHour, in the order of the days
RECURSIVE DailySlots(_, _)
DailySlots(days, startHour) ==
    IF days = {} THEN <<>>
    ELSE <<Slot(MinOf(days) * DayMin + startHour * HourMin)>>
         \o DailySlots(days \ {MinOf(days)}, startHour)

\* the request comes in: case 1 (no endHour) builds its slots at once, case
\* 2 starts the loop over the days
AddStart(p, days, startHour, endHour, interval) ==
    /\ CanStart(p)
    /\ procs' = [procs EXCEPT ![p] =
                    IF endHour = <<>>
                    THEN [IdleProc EXCEPT
                             !.kind = "add", !.pc = "addInsert",
                             !.rows = DailySlots(days, startHour)]
                    ELSE [IdleProc EXCEPT
                             !.kind = "add", !.pc = "addDay", !.left = days,
                             !.req = [startHour |-> startHour,
                                      endHour |-> endHour[1],
                                      step |-> StepOf(interval),
                                      endTime |-> 0]]]
    /\ UNCHANGED <<users, appts, cells, messages, jobs, outbox, now,
                   overridden>>

\* for (const day of days): the window of the day; a day whose endTime is
\* not after its startTime is skipped.  After the last day, no slot is a 400
AddDay(p) ==
    /\ procs[p].pc = "addDay"
    /\ LET left == procs[p].left
           day == MinOf(left)
           startTime == day * DayMin + procs[p].req.startHour * HourMin
           endTime == day * DayMin + procs[p].req.endHour * HourMin
       IN  procs' = [procs EXCEPT ![p] =
                        IF left = {}
                        THEN IF procs[p].rows = <<>>
                             THEN Finish(p, "BadRequest")
                             ELSE [@ EXCEPT !.pc = "addInsert"]
                        ELSE IF endTime <= startTime
                        THEN [@ EXCEPT !.left = left \ {day}]
                        ELSE [@ EXCEPT !.left = left \ {day},
                                       !.pc = "addSlot", !.at = startTime,
                                       !.req.endTime = endTime]]
    /\ UNCHANGED <<users, appts, cells, messages, jobs, outbox, now,
                   overridden>>

\* for (let t = new Date(startTime); t <= endTime;
\*      t.setMinutes(t.getMinutes() + step)): one turn, or the exit
AddSlot(p) ==
    /\ procs[p].pc = "addSlot"
    /\ IF procs[p].at <= procs[p].req.endTime
       THEN /\ Len(procs[p].rows) < MaxSlots
            /\ procs' = [procs EXCEPT
                            ![p].rows = Append(@, Slot(procs[p].at)),
                            ![p].at = @ + procs[p].req.step]
       ELSE procs' = [procs EXCEPT ![p].pc = "addDay"]
    /\ UNCHANGED <<users, appts, cells, messages, jobs, outbox, now,
                   overridden>>

\* Appointment.insertMany(slots) and the response
AddInsert(p) ==
    /\ procs[p].pc = "addInsert"
    /\ LET slots == procs[p].rows
           ids == {NewIds[i] : i \in 1..Len(slots)}
       IN  appts' = [a \in DOMAIN appts \cup ids |->
                        IF a \in DOMAIN appts THEN appts[a]
                        ELSE slots[CHOOSE i \in 1..Len(slots) :
                                       NewIds[i] = a]]
    /\ procs' = [procs EXCEPT ![p] = [Finish(p, "ok") EXCEPT !.left = {}]]
    /\ UNCHANGED <<users, cells, messages, jobs, outbox, now, overridden>>

InitAdd ==
    /\ users = [n \in UserNames |-> UserWith(0, 0, FALSE)]
    /\ appts \in {[a \in {"a1"} |-> FreeAppt(a)],
                  [a \in ApptIds |-> FreeAppt(a)]}
    /\ jobs = {}
    /\ cells = {}
    /\ messages = Pool
    /\ procs = [p \in ProcIds |-> IdleProc]
    /\ outbox = <<>>
    /\ now = 0
    /\ overridden = {}

NextAdd ==
    \/ \E days \in DaysInputs, endHour \in EndHourInputs,
          interval \in IntervalInputs :
          AddStart("r1", days, 9, endHour, interval)
    \/ AddDay("r1")
    \/ AddSlot("r1")
    \/ AddInsert("r1")

SpecAdd == InitAdd /\ [][NextAdd]_vars

----------------
(* Claims about attendance *)

\* C1: once an appointment is attended or missed, no step changes its status
C1_TerminalNeverChanges ==
    [][\A a \in ApptIds :
          appts[a].status \in Terminal => appts'[a].status = appts[a].status]_vars

\* the second of two setStatus(a, missed) calls writes the user document
SecondMissedSaves(q) ==
    /\ procs[q].kind = "status"
    /\ procs[q].pc = "save"
    /\ procs'[q].pc # "save"
    /\ procs[q].st = "missed"
    /\ procs[q].prev = "missed"
    /\ \E p \in Reqs \ {q} :
          /\ procs[p].kind = "status" /\ procs[p].pc = "done"
          /\ procs[p].appt = procs[q].appt /\ procs[p].st = "missed"
          /\ procs[p].applied

\* C4: setStatus(a, missed) called a second time leaves the user's counts,
\* score, rate and category as the first call left them
C4_MissedTwiceSameAsOnce ==
    [][\A q \in Reqs : SecondMissedSaves(q) => users' = users]_vars

\* a setStatus request starts on an appointment that is terminal in another
\* status
StartsOnOtherTerminal(p) ==
    /\ procs[p].pc = "idle"
    /\ procs'[p].kind = "status"
    /\ appts[procs'[p].appt].status \in Terminal
    /\ appts[procs'[p].appt].status # procs'[p].st

\* C5: setStatus(a, s) on an appointment already terminal in another status
\* fails with InvalidTransition and changes no appointment, user or cell
C5_InvalidTransition ==
    [][\A p \in Reqs :
          StartsOnOtherTerminal(p) =>
              /\ procs'[p].pc = "done"
              /\ procs'[p].result = "InvalidTransition"
              /\ UNCHANGED <<appts, users, cells>>]_vars

\* C6: an admin setStatus(attended) and the auto-miss callback that both saw
\* the appointment booked do not both update the user's counters
C6_OneTerminalTransition ==
    \A p \in Reqs, m \in AmProcs :
        ~ /\ procs[p].kind = "status" /\ procs[p].st = "attended"
          /\ procs[p].prev = "booked" /\ procs[p].applied
          /\ procs[m].kind = "automiss" /\ procs[m].appt = procs[p].appt
          /\ procs[m].applied

\* the auto-miss callback m starts on an appointment that is not booked
AutoMissFiresOnNotBooked(m) ==
    /\ procs[m].pc \in {"idle", "done"}
    /\ procs'[m].kind = "automiss"
    /\ procs'[m] # procs[m]
    /\ appts[procs'[m].appt].status # "booked"

\* C7: the auto-miss callback run on an appointment that is not booked ends
\* at once and changes no appointment, user or cell and sends no survey
C7_AutoMissNoOp ==
    [][\A m \in AmProcs :
          AutoMissFiresOnNotBooked(m) =>
              /\ procs'[m].pc = "done"
              /\ ~procs'[m].applied
              /\ UNCHANGED <<appts, users, cells, outbox>>]_vars

\* the callback has skipped an appointment the admin marked attended, and one
\* run has skipped an appointment an earlier run marked missed
C7_Witness ==
    \E m \in AmProcs :
        /\ procs[m].kind = "automiss" /\ procs[m].pc = "done"
        /\ procs[m].result = "skipped" /\ procs[m].prev = "missed"
        /\ \E e \in 1..Len(outbox) :
              outbox[e].kind = "survey" /\ outbox[e].appt = procs[m].appt

\* C8: every user's attendanceRate is 100 * attended / (attended + missed),
\* and 0 with no history
C8_RateMatchesCounts ==
    \A n \in DOMAIN users :
        LET t == users[n].attendedCount + users[n].missedCount
            r == users[n].attendanceRate
        IN  IF t > 0 THEN r[1] * t = 100 * users[n].attendedCount * r[2]
            ELSE r[1] = 0

\* the category the counts call for
CategoryOf(attended, total) ==
    IF 100 * attended >= 80 * total THEN "Very Good"
    ELSE IF 100 * attended >= 60 * total THEN "Good"
    ELSE "At-Risk"

\* C9: with 3 or more attendance events the category is the one the rate
\* calls for, unless an admin has set it since the last attendance update
C9_CategoryMatchesRate ==
    \A n \in DOMAIN users :
        LET t == users[n].attendedCount + users[n].missedCount
        IN  (t >= 3 /\ n \notin overridden) =>
                users[n].category = CategoryOf(users[n].attendedCount, t)

----------------------------------------------------------------------------
(* Claims about booking *)

\* C2: of two book requests for the same appointment at most one succeeds
C2_SingleWinner ==
    \A p \in Reqs, q \in Reqs :
        ~ /\ p # q
          /\ procs[p].kind = "book" /\ procs[q].kind = "book"
          /\ procs[p].appt = procs[q].appt
          /\ procs[p].result = "ok" /\ procs[q].result = "ok"

\* the effective demand cell of appointment a, over the cells cs, is
\* high-demand: a cell is found, set by the admin or with total >= threshold
HighDemandSlot(cs, a) ==
    LET slot == getEffectiveHighDemand(cs, appts[a].doctorName, appts[a].date)
    IN  /\ slot # NoCell
        /\ \/ slot.source = "admin"
           \/ slot.totalAppointments * slot.highDemandThreshold[2]
                  >= slot.highDemandThreshold[1]

\* request p passes the admission gate as an At-Risk user on a high-demand slot
GateOnHighDemand(p) ==
    /\ procs[p].pc = "admit"
    /\ procs'[p].pc # "admit"
    /\ procs[p].u.category = "At-Risk"
    /\ HighDemandSlot(cells', procs[p].appt)

LeadHours(cat) ==
    IF cat = "Very Good" THEN {24}
    ELSE IF cat = "Good" THEN {24, 2}
    ELSE {48, 6, 1}

\* rows holds one row per lead hour: sent at `at` for the lead times already
\* reached at `at`, scheduled at its lead time for each other
RowsAsPlanned(rows, cat, apptTime, at) ==
    LET leads == LeadHours(cat)
        past == {h \in leads : apptTime - h * 60 <= at}
        sent == {i \in 1..Len(rows) : rows[i].status = "sent"}
    IN  /\ Len(rows) = Cardinality(leads)
        /\ Cardinality(sent) = Cardinality(past)
        /\ \A i \in sent : rows[i].sendTime = at
        /\ \A h \in leads \ past :
              Cardinality({i \in 1..Len(rows) :
                              /\ rows[i].status = "scheduled"
                              /\ rows[i].sendTime = apptTime - h * 60}) = 1

\* C10: when book succeeds, the appointment's reminder list is the plan of the
\* category the request loaded, taken at the instant the request read the clock
C10_RemindersAsPlanned ==
    [][\A p \in Reqs :
          (procs[p].kind = "book" /\ procs[p].pc = "save"
                                  /\ procs'[p].result = "ok") =>
              RowsAsPlanned(appts'[procs[p].appt].reminders,
                            procs[p].u.category,
                            appts[procs[p].appt].date, procs[p].at)]_vars

\* an At-Risk user's booking made exactly 6 hours ahead: the 48 h and 6 h
\* rows are sent, the 1 h row is scheduled
C10_Witness ==
    \E p \in Reqs :
        LET r == appts[procs[p].appt].reminders
        IN  /\ procs[p].kind = "book" /\ procs[p].result = "ok"
            /\ Len(r) = 3
            /\ r[1].status = "sent" /\ r[2].status = "sent"
            /\ r[2].sendTime = appts[procs[p].appt].date - 6 * 60
            /\ r[3].status = "scheduled"

\* the lead hours of p's plan already reached when p read the clock
PastLeads(p) ==
    {h \in LeadHours(procs[p].u.category) :
        appts[procs[p].appt].date - h * HourMin <= now}

\* C11: the loop of one book call makes at most one call of the notifier;
\* exactly one when the pool of the message type is non-empty and a lead hour
\* is already past, and then every past lead hour has a row sent at now
C11_OneInstantDelivery ==
    [][\A p \in Reqs :
          (procs[p].kind = "book" /\ procs[p].pc = "plan"
                                  /\ procs'[p].pc = "save") =>
              LET n == Len(outbox') - Len(outbox)
                  mtype == MessageType(procs[p].u.category)
                  rows == procs'[p].rows
              IN  /\ n <= 1
                  /\ (messages[mtype] # {} /\ PastLeads(p) # {}) => n = 1
                  /\ (messages[mtype] = {} \/ PastLeads(p) = {}) => n = 0
                  /\ Cardinality({i \in 1..Len(rows) :
                                     /\ rows[i].status = "sent"
                                     /\ rows[i].sendTime = now})
                        = Cardinality(PastLeads(p))]_vars

\* a booking made with two lead hours already past: two rows are sent and
\* one message went out
C11_Witness ==
    \E p \in Reqs :
        LET r == appts[procs[p].appt].reminders
        IN  /\ procs[p].kind = "book" /\ procs[p].result = "ok"
            /\ Cardinality({i \in 1..Len(r) : r[i].status = "sent"}) >= 2
            /\ Len(outbox) = 1
            /\ outbox[1].kind = "instant"

----------------
(* Claims about the reminder and auto-miss jobs *)

\* job j fires in this step
Fired(j) ==
    \E k \in jobs' : /\ k.kind = j.kind /\ k.appt = j.appt /\ k.at = j.at
                     /\ k.owner = j.owner /\ k.fires = j.fires + 1

\* reminder messages sent so far for appointment a and sendTime t
RemindersSent(box, a, t) ==
    {k \in 1..Len(box) : /\ box[k].kind = "reminder" /\ box[k].appt = a
                         /\ box[k].at = t}

\* C12: a reminder row that is sent stays sent, and the job of an
\* (appointment, sendTime) delivers at most one message
C12_ReminderAtMostOnce ==
    [][/\ \A a \in DOMAIN appts \cap DOMAIN appts' :
             Len(appts'[a].reminders) = Len(appts[a].reminders) =>
                 \A i \in 1..Len(appts[a].reminders) :
                     appts[a].reminders[i].status = "sent" =>
                         appts'[a].reminders[i].status = "sent"
       /\ \A j \in jobs' :
             j.kind = "reminder" =>
                 Cardinality(RemindersSent(outbox', j.appt, j.at)) <= 1]_vars

\* C13: a reminder job that fires while its appointment is not booked, or is
\* deleted, sends nothing and changes no reminder row
C13_ReminderSkipsUnbooked ==
    [][\A j \in jobs :
          (j.kind = "reminder" /\ Fired(j) /\ StatusOf(j.appt) # "booked") =>
              UNCHANGED <<outbox, appts>>]_vars

\* C14: when a reminder job fires, no later reminder and no auto-miss check
\* of its booking has fired yet; the auto-miss check fires at appointment
\* time + 10 minutes, after every reminder of the booking has fired
C14_FiringOrder ==
    [][\A j \in jobs :
          /\ (j.kind = "reminder" /\ Fired(j)) =>
                \A k \in SameBooking(j) :
                    /\ k.kind = "automiss" => k.fires = 0
                    /\ (k.kind = "reminder" /\ k.at > j.at) => k.fires = 0
          /\ (j.kind = "automiss" /\ Fired(j)) =>
                /\ now = j.at
                /\ \A k \in SameBooking(j) :
                      k.kind = "reminder" => k.fires >= 1]_vars

\* appointment a has its auto-miss job and a reminder job per scheduled row
HasLiveJobs(J, a) ==
    /\ \E j \in J : j.kind = "automiss" /\ j.appt = a
    /\ \A i \in 1..Len(appts[a].reminders) :
          appts[a].reminders[i].status = "scheduled" =>
              \E j \in J : /\ j.kind = "reminder" /\ j.appt = a
                           /\ j.at = appts[a].reminders[i].sendTime

\* C15: every appointment booked by a finished book call has its jobs, in
\* every state, a state after a restart included
C15_JobsSurviveRestart ==
    \A a \in DOMAIN appts :
        (/\ appts[a].status = "booked"
         /\ \E p \in Reqs : /\ procs[p].kind = "book" /\ procs[p].appt = a
                            /\ procs[p].result = "ok")
            => HasLiveJobs(jobs, a)

\* a finished book call booked appointment a, and it is still booked
BookedByCall(a) ==
    /\ appts[a].status = "booked"
    /\ \E p \in Reqs : /\ procs[p].kind = "book" /\ procs[p].appt = a
                       /\ procs[p].result = "ok"

\* C16: whenever the clock moves on, every appointment a finished book call
\* booked whose time + 10 minutes has come is in the hands of its auto-miss
\* handler (which takes it to missed) or has already left booked
C16_AutoMissRuns ==
    [][now' > now =>
          \A a \in DOMAIN appts :
              (BookedByCall(a) /\ appts[a].date + AutoMissDelay <= now) =>
                  \E m \in AmProcs : /\ procs[m].kind = "automiss"
                                     /\ procs[m].appt = a
                                     /\ procs[m].pc \notin {"idle", "done"}]_vars

----------------
(* Claims about late release *)

\* the hourly task has run at an instant from which appointment a started
\* within two hours
HourlyCovered(a) ==
    \E j \in jobs : /\ j.kind = "hourly" /\ j.fires > 0
                    /\ appts[a].date >= j.lastFired
                    /\ appts[a].date <= j.lastFired + ReleaseWindow * HourMin

\* C17: once the hourly task has run with an available appointment starting
\* within two hours, an At-Risk user's book of that appointment passes the
\* admission gate, whatever made its demand cell high-demand
C17_LateRelease ==
    [][\A p \in Reqs :
          (/\ procs[p].kind = "book" /\ procs[p].pc = "admit"
           /\ procs'[p].pc # "admit"
           /\ procs[p].u.category = "At-Risk"
           /\ appts[procs[p].appt].status = "available"
           /\ HourlyCovered(procs[p].appt))
              => procs'[p].result # "AdmissionDenied"]_vars

----------------
(* Claims about failed bookings, the life cycle and identity *)

Failures == {"NotFound", "NotAvailable", "UserNotRegistered",
             "AdmissionDenied"}

\* the appointments, the jobs and the set of users are as they were
NothingBooked ==
    /\ appts' = appts
    /\ jobs' = jobs
    /\ DOMAIN users' = DOMAIN users

C19_LifeCycle ==
    [][\A a \in DOMAIN appts \cap DOMAIN appts' :
          /\ appts'[a].status \in Statuses
          /\ (appts'[a].userName # "none") <=> (appts'[a].status # "available")
          /\ (appts'[a].status \in Terminal
                /\ appts'[a].status # appts[a].status) =>
                appts[a].status = "booked"]_vars

\* C20: no two users have names equal ignoring case, and the user lookup of
\* a status update finds the user registered under the appointment's name
\* in any letter case
C20_CaseInsensitiveIdentity ==
    [][/\ \A m, n \in DOMAIN users' : Lower(m) = Lower(n) => m = n
       /\ \A p \in Reqs :
             (/\ procs[p].kind = "status" /\ procs[p].pc = "findUser"
              /\ procs'[p].pc # "findUser"
              /\ FindUserIgnoreCase(procs[p].uname) # {}) =>
                 /\ procs'[p].pc = "save"
                 /\ procs'[p].u = users[CHOOSE n \in FindUserIgnoreCase(
                                            procs[p].uname) : TRUE]]_vars

----------------------------------------------------------------------------
(* Claims about the demand engine *)

\* the cells of a doctor's month
MonthCells(cs, doctor, year, month) ==
    {c \in cs : c.doctorName = doctor /\ c.year = year /\ c.month = month}

\* request p is inside a call of initializeMonthIfNeeded
InEnsure(p) ==
    procs[p].pc \in {"learn", "lastYear", "insert",
                     "learn2", "lastYear2", "insert2"}

\* C21: initializeMonthIfNeeded is idempotent: once the month of the
\* appointment has cells, a step of a call for that month, whether the call
\* started before or after the first one ended, inserts no cell and raises
\* no error
C21_EnsureMonthIdempotent ==
    [][\A p \in Reqs :
          (/\ InEnsure(p)
           /\ procs'[p] # procs[p]
           /\ MonthCells(cells, appts[procs[p].appt].doctorName,
                         getFullYear(appts[procs[p].appt].date),
                         getMonth1(appts[procs[p].appt].date)) # {})
          => /\ cells' = cells
             /\ procs'[p].result # "DuplicateKey"]_vars

TotalAt(cs, a) ==
    LET hit == {c \in cs : /\ c.doctorName = appts[a].doctorName
                           /\ c.year = getFullYear(appts[a].date)
                           /\ c.month = getMonth1(appts[a].date)
                           /\ c.dayOfWeek = getDay(appts[a].date)
                           /\ c.hour = getHours(appts[a].date)}
    IN  IF hit = {} THEN 0 ELSE FindOne(hit).totalAppointments

\* this step keeps the total and the threshold of every cell but a's
OthersKept(a) ==
    \A c \in cells :
        \/ /\ c.doctorName = appts[a].doctorName
           /\ c.year = getFullYear(appts[a].date)
           /\ c.month = getMonth1(appts[a].date)
           /\ c.dayOfWeek = getDay(appts[a].date)
           /\ c.hour = getHours(appts[a].date)
        \/ c \in cells'

\* C29: an update that takes a booked appointment to attended adds exactly 1
\* to the total of the cell of the appointment's date, which it creates when
\* absent; no update to attended changes the total or threshold of another
\* cell; an update to missed changes no cell
C29_AttendedCountsOnce ==
    [][\A p \in Reqs :
          /\ (procs[p].st = "missed" /\ procs'[p] # procs[p])
             => cells' = cells
          /\ (procs[p].st = "attended" /\ procs'[p] # procs[p])
             => /\ OthersKept(procs[p].appt)
                /\ TotalAt(cells', procs[p].appt)
                       \in {TotalAt(cells, procs[p].appt),
                            TotalAt(cells, procs[p].appt) + 1}
          /\ (/\ procs[p].st = "attended"
              /\ procs[p].prev = "booked"
              /\ procs[p].pc # "done"
              /\ procs'[p].pc = "done")
             => TotalAt(cells', procs[p].appt)
                    = TotalAt(cells, procs[p].appt) + 1]_vars

\* the total at rank r (from 0) of H in descending order of total: fewer than
\* r + 1 cells lie above it and at least r + 1 cells reach it
RankTotal(H, r) ==
    CHOOSE v \in {c.totalAppointments : c \in H} :
        /\ Cardinality({c \in H : c.totalAppointments > v}) <= r
        /\ Cardinality({c \in H : c.totalAppointments >= v}) > r

\* the threshold the claim gives for the cells H: max(1.2 * mean, total at
\* rank floor(|H| * 0.25)) for three cells or more, 1.1 * mean for one or two
ClaimedThreshold(H) ==
    LET n == Cardinality(H)
        sum == SumTotals(H)
        v == RankTotal(H, n \div 4)
    IN  IF n >= 3
        THEN (IF 12 * sum >= 10 * n * v THEN Frac(12 * sum, 10 * n)
              ELSE Whole(v))
        ELSE Frac(11 * sum, 10 * n)

\* C22: when recalc has written, every cell of the month carries the same
\* threshold, max(1.2 * mean, total at rank floor(|H| * 0.25)) of the cells
\* H it read if they are three or more, 1.1 * mean if they are one or two
C22_RecalcThreshold ==
    [][\A k \in CronProcs :
          (procs[k].pc = "recalcUpdate" /\ procs'[k].pc = "limitFind")
          => \A c \in MonthCellsOf(cells', procs[k].name,
                                   TargetYear(procs[k].at),
                                   TargetMonth(procs[k].at)) :
                 c.highDemandThreshold = ClaimedThreshold(procs[k].snap)]_vars

\* recalc has written over three cells or more, and the rank total was the
\* larger of the two
C22_Witness ==
    \E k \in CronProcs :
        /\ procs[k].pc = "limitFind"
        /\ Cardinality(procs[k].snap) >= 3
        /\ 12 * SumTotals(procs[k].snap)
               < 10 * Cardinality(procs[k].snap)
                    * RankTotal(procs[k].snap, Cardinality(procs[k].snap) \div 4)
        /\ \A c \in procs[k].snap :
               \E d \in cells : /\ SameKey(c, d)
                                /\ d.highDemandThreshold
                                       = Whole(RankTotal(procs[k].snap,
                                               Cardinality(procs[k].snap) \div 4))

\* the calendar month before the month of instant t, as <<year, month>>
PrevCalendarMonth(t) ==
    IF getMonth1(t) = 1 THEN <<getFullYear(t) - 1, 12>>
    ELSE <<getFullYear(t), getMonth1(t) - 1>>

\* C23: the run of the monthly task that starts on the 1st of a month has
\* applied recalc and capPeaks, when it ends, to the previous calendar month
\* of every distinct doctor and to nothing else; on 1 January that month is
\* December of the year before
C23_MonthlyTargetsPreviousMonth ==
    [][\A k \in CronProcs :
          (/\ procs'[k].kind = "monthly"
           /\ procs'[k].pc = "done"
           /\ procs'[k] # procs[k])
          => procs'[k].targets =
                 {<<c.doctorName, PrevCalendarMonth(procs'[k].at)[1],
                    PrevCalendarMonth(procs'[k].at)[2]>> : c \in cells}]_vars

\* the cells of the month capPeaks has just gone through that count as
\* high-demand: set by the admin, or with total >= threshold
HighDemandCells(cs) ==
    {c \in cs : \/ c.source = "admin"
                \/ c.totalAppointments * c.highDemandThreshold[2]
                       >= c.highDemandThreshold[1]}

\* C26: when capPeaks (maxFraction 0.5) has gone through the cells H of a
\* month, every cell outside the top floor(|H| * 0.5) by total has the
\* unreachable threshold, and at most floor(|H| * 0.5) cells of the month
\* are high-demand
C26_PeakCap ==
    [][\A k \in CronProcs :
          (procs[k].pc = "limitSave" /\ procs'[k].pc # "limitSave")
          => LET H == MonthCellsOf(cells', procs[k].name,
                                   TargetYear(procs[k].at),
                                   TargetMonth(procs[k].at))
             IN  /\ \A c \in H :
                        \/ \E t \in procs[k].top : SameKey(c, t)
                        \/ c.highDemandThreshold = Whole(MaxSafe)
                 /\ Cardinality(HighDemandCells(H))
                        <= Cardinality(H) \div 2]_vars

\* the cells of the four lookups of effective(doctor, date), in the order of
\* the claim: this year's and last year's cell of the day and hour, this
\* year's and last year's admin baseline of the hour
Candidates(cs, doctor, t) ==
    LET slot(y) == {c \in cs : /\ c.doctorName = doctor /\ c.year = y
                               /\ c.month = getMonth1(t)
                               /\ c.dayOfWeek = getDay(t)
                               /\ c.hour = getHours(t)}
        base(y) == {c \in cs : /\ c.doctorName = doctor /\ c.year = y
                               /\ c.month = getMonth1(t)
                               /\ c.dayOfWeek = NullDow
                               /\ c.hour = getHours(t)
                               /\ c.source = "admin"}
    IN  <<slot(getFullYear(t)), slot(getFullYear(t) - 1),
          base(getFullYear(t)), base(getFullYear(t) - 1)>>

\* C25: the effective cell of a slot is the first that exists among this
\* year's cell, last year's cell, this year's admin baseline and last
\* year's admin baseline, and there is none only when all four are absent
C25_EffectivePrecedence ==
    \A a \in ApptIds :
        LET cand == Candidates(cells, Doctor, SlotTime(a))
            found == getEffectiveHighDemand(cells, Doctor, SlotTime(a))
        IN  /\ (found = NoCell) <=> (\A i \in 1..4 : cand[i] = {})
            /\ \A i \in 1..4 :
                   (cand[i] # {} /\ \A j \in 1..(i - 1) : cand[j] = {})
                   => found \in cand[i]

\* the hourly task has looked up the slot of a2 and released last year's
\* cell of its day and hour, this year's admin baseline of the hour being
\* there as well
C25_Witness ==
    /\ \E j \in jobs : j.kind = "hourly" /\ j.fires > 0
    /\ Candidates(cells, Doctor, SlotTime("a2"))[1] = {}
    /\ Candidates(cells, Doctor, SlotTime("a2"))[3] # {}
    /\ \E c \in Candidates(cells, Doctor, SlotTime("a2"))[2] :
           c.highDemandThreshold = Whole(MaxSafe)

\* C27: a setBaseline call that succeeds leaves, as the admin rows of the
\* month, exactly one row (dayOfWeek null, source admin) per listed hour,
\* whatever cells were there; after one that fails the admin rows it found
\* are still there
C27_BaselineReplaced ==
    [][\A p \in Reqs :
          (procs[p].pc = "baselineInsert" /\ procs'[p].pc = "done")
          => LET entries == procs[p].rows
                 admin == {c \in MonthCellsOf(cells', entries[1].doctorName,
                                              entries[1].year,
                                              entries[1].month) :
                              c.source = "admin"}
             IN  IF procs'[p].result = "ok"
                 THEN /\ admin = {entries[i] : i \in DOMAIN entries}
                      /\ Cardinality(admin) = Len(entries)
                 ELSE \A c \in procs[p].snap :
                          \E d \in admin : SameKey(c, d)]_vars

\* totalAppointments of the cell with the key of c; 0 when there is none
TotalOfKey(cs, c) ==
    LET hit == {d \in cs : SameKey(c, d)}
    IN  IF hit = {} THEN 0 ELSE FindOne(hit).totalAppointments

\* C28: within its month the totalAppointments of a cell key never
\* decreases, whichever operation of the demand engine takes the step
C28_TotalsNeverDecrease ==
    [][\A c \in cells :
          (c.year = getFullYear(now) /\ c.month = getMonth1(now))
          => TotalOfKey(cells', c) >= c.totalAppointments]_vars

----------------------------------------------------------------------------
(* Claims about reminder texts *)

\* the texts of category mtype picked so far for appointment a, among the
\* first n calls of sendTelegramReminder in box
UsedFor(box, n, a, mtype) ==
    {box[i].text : i \in {i \in 1..n : /\ box[i].kind \in {"instant", "reminder"}
                                       /\ box[i].appt = a
                                       /\ box[i].mtype = mtype}}

\* C30: a reminder delivered for an appointment, at booking or by a job,
\* carries a text not used before for that appointment, as long as the pool
\* of its category still held an unused one
C30_UniqueTexts ==
    [][\A k \in (Len(outbox) + 1)..Len(outbox') :
          LET used == UsedFor(outbox', k - 1, outbox'[k].appt,
                              outbox'[k].mtype)
          IN  (/\ outbox'[k].kind \in {"instant", "reminder"}
               /\ outbox'[k].delivered
               /\ messages[outbox'[k].mtype] \ used # {})
              => outbox'[k].text \notin used]_vars

----------------------------------------------------------------------------
(* Claims about the message pool and the notifier *)

\* the call of sendTelegramReminder this step makes for job j
SendsFor(j) ==
    /\ Len(outbox') = Len(outbox) + 1
    /\ outbox'[Len(outbox')].kind = "reminder"
    /\ outbox'[Len(outbox')].appt = j.appt
    /\ outbox'[Len(outbox')].at = j.at

\* after the step, the reminder rows of job j's sendTime are sent
RowSent(j) ==
    /\ j.appt \in DOMAIN appts'
    /\ \A i \in 1..Len(appts'[j.appt].reminders) :
          appts'[j.appt].reminders[i].sendTime = j.at =>
              appts'[j.appt].reminders[i].status = "sent"

\* C31: a reminder job that fires for a booked appointment when every text
\* of its category has been used for the booking starts the used set anew,
\* sends a reminder and marks its row sent
C31_ExhaustedPoolResets ==
    [][\A j \in jobs :
          (/\ j.kind = "reminder" /\ Fired(j)
           /\ StatusOf(j.appt) = "booked"
           /\ messages[j.mtype] # {}
           /\ messages[j.mtype] \subseteq j.used) =>
              /\ SendsFor(j)
              /\ RowSent(j)
              /\ \A k \in jobs' :
                    (k.owner = j.owner /\ k.appt = j.appt) =>
                        k.used = {outbox'[Len(outbox')].text}]_vars

\* the message pool of the category the book call p loaded is empty
EmptyPoolBook(p) ==
    /\ procs[p].kind = "book"
    /\ procs[p].pc \in {"plan", "save"}
    /\ messages[MessageType(procs[p].u.category)] = {}

\* C32: with an empty message pool of the user's category, book sends
\* nothing, still succeeds and saves one row per lead hour (sent for the
\* lead times reached, scheduled for the others); a reminder job that fires
\* with an empty pool sends nothing, changes no appointment and raises
\* nothing
C32_EmptyPoolDegrades ==
    [][/\ \A p \in Reqs :
             EmptyPoolBook(p) =>
                 /\ procs'[p].pc # procs[p].pc => outbox' = outbox
                 /\ procs'[p].pc = "done" =>
                       procs'[p].result \in {"ok", "dropped"}
                 /\ procs'[p].result = "ok" =>
                       RowsAsPlanned(appts'[procs[p].appt].reminders,
                                     procs[p].u.category,
                                     appts[procs[p].appt].date, procs[p].at)
       /\ \A j \in jobs :
             (j.kind = "reminder" /\ Fired(j) /\ messages[j.mtype] = {}) =>
                 /\ UNCHANGED <<outbox, appts>>
                 /\ \A k \in jobs' :
                       (k.kind = j.kind /\ k.appt = j.appt /\ k.at = j.at
                                        /\ k.owner = j.owner) => ~k.threw]_vars

\* a booking made 23 hours ahead with an empty pool: the 24-hour row is
\* sent, the 2-hour row is scheduled, its job has fired, nothing was sent
C32_Witness ==
    /\ procs["r1"].kind = "book" /\ procs["r1"].result = "ok"
    /\ "a1" \in DOMAIN appts
    /\ appts["a1"].status = "booked"
    /\ \E i, k \in 1..Len(appts["a1"].reminders) :
          /\ appts["a1"].reminders[i].status = "sent"
          /\ appts["a1"].reminders[k].status = "scheduled"
    /\ \E j \in jobs : /\ j.kind = "reminder" /\ j.appt = "a1"
                       /\ j.fires >= 1 /\ messages[j.mtype] = {}
    /\ outbox = <<>>

\* appointment a holds a reminder row of sendTime t
HasRow(as, a, t) ==
    /\ a \in DOMAIN as
    /\ \E i \in 1..Len(as[a].reminders) : as[a].reminders[i].sendTime = t

\* C33: when a reminder job fires for a booked appointment and its call of
\* sendTelegramReminder delivers nothing (no chat id, no bot, or
\* bot.sendMessage fails), the callback raises nothing and the reminder row
\* of the job is marked sent
C33_FailedDeliveryStillSent ==
    [][\A j \in jobs :
          (/\ j.kind = "reminder" /\ Fired(j)
           /\ StatusOf(j.appt) = "booked"
           /\ HasRow(appts, j.appt, j.at)
           /\ SendsFor(j)
           /\ ~outbox'[Len(outbox')].delivered) =>
              /\ RowSent(j)
              /\ \A k \in jobs' :
                    (k.kind = j.kind /\ k.appt = j.appt /\ k.at = j.at
                                     /\ k.owner = j.owner) => ~k.threw]_vars

\* a1 is booked and reminders went out for it undelivered, one skipped by
\* sendTelegramReminder and one failed in bot.sendMessage, and each has its
\* row sent
C33_Witness ==
    /\ "a1" \in DOMAIN appts
    /\ appts["a1"].status = "booked"
    /\ \A o \in {"skipped", "failed"} :
          \E k \in 1..Len(outbox) :
             /\ outbox[k].kind = "reminder" /\ outbox[k].appt = "a1"
             /\ outbox[k].outcome = o
             /\ \E i \in 1..Len(appts["a1"].reminders) :
                   /\ appts["a1"].reminders[i].sendTime = outbox[k].at
                   /\ appts["a1"].reminders[i].status = "sent"

----------------------------------------------------------------------------
(* Claims about the demand engine inside book *)

\* request p leaves the step that runs initializeMonthIfNeeded and the gate
PassesEnsure(p) ==
    /\ procs[p].kind = "book"
    /\ procs[p].pc = "admit"
    /\ procs'[p].pc # "admit"

\* C34: the initializeMonthIfNeeded call of book leaves, for every slot, the
\* answer to "is the effective cell high-demand" as it was before the call
C34_EnsureKeepsAdmission ==
    [][\A p \in Reqs :
          PassesEnsure(p) =>
              \A a \in DOMAIN appts :
                  HighDemandSlot(cells', a) = HighDemandSlot(cells, a)]_vars

\* the step copies last year's cells, and the effective cell of a's slot was
\* last year's learned cell of the same weekday and hour, with a positive
\* threshold: its copy, with total 0, now comes first and is not high-demand
Shadowed(a) ==
    LET slot == getEffectiveHighDemand(cells, appts[a].doctorName,
                                       appts[a].date)
    IN  /\ cells' # cells
        /\ slot.year = getFullYear(appts[a].date) - 1
        /\ slot.dayOfWeek # NullDow
        /\ slot.highDemandThreshold[1] > 0

\* C34 (amended): the call can lower the gate and never raises it: a slot is
\* high-demand after the call exactly when it was high-demand before and
\* the call did not shadow last year's learned cell with its copy
C34_EnsureOnlyLowers ==
    [][\A p \in Reqs :
          PassesEnsure(p) =>
              \A a \in DOMAIN appts :
                  HighDemandSlot(cells', a) =
                      (HighDemandSlot(cells, a) /\ ~Shadowed(a))]_vars

\* an At-Risk user got past the gate for a1 although last year's cell of
\* the slot is at its threshold: this year's copy, with total 0, decided
C34_Witness ==
    /\ SlotCell(2024, 5, 3) \in cells
    /\ SlotCell(2025, 0, 3) \in cells
    /\ \E p \in Reqs : /\ procs[p].kind = "book" /\ procs[p].appt = "a1"
                       /\ procs[p].pc \in {"write", "plan", "save"}
                       /\ procs[p].u.category = "At-Risk"

\* the attended appointments of a doctor in a month
AttendedIn(doctor, year, month) ==
    {a \in DOMAIN appts : /\ appts[a].status = "attended"
                          /\ appts[a].doctorName = doctor
                          /\ getFullYear(appts[a].date) = year
                          /\ getMonth1(appts[a].date) = month}

\* C35: between handlers, the totals of the cells of a (doctor, year, month)
\* add up to the number of attended appointments of that doctor and month
C35_AttendedOnceInTotals ==
    (\A p \in ProcIds : procs[p].pc \in {"idle", "done"}) =>
        SumTotals(MonthCellsOf(cells, Doctor, 2025, 10))
            = Cardinality(AttendedIn(Doctor, 2025, 10))

----------------------------------------------------------------------------
(* Claims about status updates *)

\* the appointments of user n in status st
ApptsOf(n, st) ==
    {a \in DOMAIN appts : appts[a].userName = n /\ appts[a].status = st}

\* C36: between handlers, a user's attendedCount is the number of the
\* user's attended appointments and missedCount the number of missed ones
C36_CountsMatchAppointments ==
    (\A p \in ProcIds : procs[p].pc \in {"idle", "done"}) =>
        \A n \in DOMAIN users :
            /\ users[n].attendedCount = Cardinality(ApptsOf(n, "attended"))
            /\ users[n].missedCount = Cardinality(ApptsOf(n, "missed"))

\* request p ends in this step with the not-found answer
EndsNotFound(p) ==
    /\ procs'[p].kind = "status"
    /\ procs[p].pc # "done"
    /\ procs'[p].pc = "done"
    /\ procs'[p].result = "NotFound"

\* C37: a status request that ends with the not-found answer leaves the
\* status of its appointment as it was when the request came in
C37_NotFoundChangesNothing ==
    [][\A p \in Reqs :
          (EndsNotFound(p) /\ procs'[p].appt \in DOMAIN appts') =>
              appts'[procs'[p].appt].status =
                  (IF procs[p].pc = "idle"
                   THEN appts[procs'[p].appt].status
                   ELSE procs[p].prev)]_vars

----------------------------------------------------------------------------
(* Claims about cells nobody attended *)

\* C38: a cell with source auto and totalAppointments 0 is never high-demand
C38_ZeroTotalNeverHigh ==
    \A c \in cells :
        (c.source = "auto" /\ c.totalAppointments = 0) => ~isHighDemand(c)

----------------------------------------------------------------------------
(* Claims about the reach of the late release *)

\* the hourly task runs in this step
HourlyRuns ==
    \E j \in jobs : j.kind = "hourly" /\ Fired(j)

\* the available appointments the run finds within the window
Soon ==
    {a \in DOMAIN appts' :
        /\ appts'[a].status = "available"
        /\ appts'[a].date >= now
        /\ appts'[a].date <= now + ReleaseWindow * HourMin}

EffectiveOf(cs, a) ==
    getEffectiveHighDemand(cs, appts[a].doctorName, appts[a].date)

----------------------------------------------------------------------------
(* Claims about slot generation *)

\* C40: every turn of the slot loop moves t towards the end of the daily
\* window, so that the loop ends, and every slot built is available and
\* lies inside the window [startHour:00, endHour:00] of its day
C40_SlotGenerationTerminates ==
    [][\A p \in Reqs :
          (procs[p].kind = "add" /\ procs[p].pc = "addSlot") =>
              /\ procs'[p].pc = "addSlot" => procs'[p].at > procs[p].at
              /\ \A i \in 1..Len(procs'[p].rows) :
                    LET s == procs'[p].rows[i]
                    IN  /\ s.status = "available"
                        /\ s.date % DayMin >= procs[p].req.startHour * HourMin
                        /\ s.date % DayMin <= procs[p].req.endHour * HourMin
                 ]_vars

====
